---- MODULE Spec2Model ----
(***************************************************************************)
(* A model of the ortholist pipeline: the WormBase identifier resolver     *)
(* (helper/wb_map.py), the expansion of orthology groups into pairs        *)
(* (databases/Homologene.py, InParanoid.py, OrthoMCL.py) and the master    *)
(* table built by run.py.                                                  *)
(*                                                                         *)
(* A DataFrame is a sequence of rows; every row is a record that carries   *)
(* its index label in the field idx next to its columns.  Python's None    *)
(* and pandas' NaN are the two strings None and NaN.                       *)
(***************************************************************************)
EXTENDS Integers, Sequences, FiniteSets, TLC

VARIABLES
    WB_WS255,               \* wb_map.WB_WS255: the set of WS255 gene ids
    wb_changes_csv,         \* the data rows of data/wormbase/WB_changes.csv
    WB_OLD_TO_CURRENT_MAP,  \* wb_map.WB_OLD_TO_CURRENT_MAP: old -> <<current, comment>>
    call,                   \* the last call made on the resolver: function, argument, result
    source,                 \* the group-shaped source whose raw file is being expanded
    reader,                 \* the rows of that raw file
    pos,                    \* rows of the raw file read so far; for OrthoMCL then groups expanded
    current_group,          \* the streaming expanders' current_group
    groups,                 \* OrthoMCL's groups, in the order the keys were inserted
    ortholog_list,          \* the pairs produced so far
    ortholog_file,          \* the lines of the ortholog file the streaming expanders write
    raw_df,                 \* the table of raw pairs the reader hands on
    pc,                     \* where the expansion is: rows, expand, done, read
    DATABASES,              \* run.py's DATABASES: the (name, table) pairs, in list order
    ahringer_csv,           \* the rows of data/ahringer/locations_ws239.csv
    protein_domains,        \* the rows of the WS255 protein_domains file
    ensembl_tsv,            \* the rows of data/ensembl/89/ensembl_annotations.tsv.gz
    WORMBASE,               \* the table get_wormbase_table returns
    db_pos,                 \* tables of DATABASES the master loop has started on
    selected,               \* the rows of the current table with both ids non-null
    row_pos,                \* rows of selected already folded
    all_pairs,              \* run.py's all_pairs, in the order the keys were inserted
    master_df,              \* run.py's master_df
    stage,                  \* where the run is: start, fold, tuples, wormbase, ensembl, serialized
    impl,                   \* what builds the per-source table: the Database class or run.py
    db_name,                \* the source whose table is built
    data,                   \* the files of that source: its pairs and its crosswalk tables
    self_df,                \* Database's self.df (the local table of run.py's function)
    step,                   \* where the build is: start, raw, worm, human, processed, done, raised
    exc,                    \* the exception that ended the build, if any
    run,                    \* the number of the run of the program, from 1
    preprocessed,           \* the argument of run.py's get_homologene and get_orthoinspector
    script                  \* the preprocess.sh process: none, running, finished

resolverVars == <<WB_WS255, wb_changes_csv, WB_OLD_TO_CURRENT_MAP, call>>
expandVars ==
    <<source, reader, pos, current_group, groups, ortholog_list, ortholog_file, raw_df, pc>>
masterVars ==
    <<DATABASES, ahringer_csv, protein_domains, ensembl_tsv, WORMBASE, db_pos, selected,
      row_pos, all_pairs, master_df, stage>>
sourceVars == <<impl, db_name, data, self_df, step, exc>>
runVars == <<run, preprocessed, script>>
vars == <<resolverVars, expandVars, masterVars, sourceVars, runVars>>

----------------------------------------------------------------------------
(* Bounds and value universes *)

MaxChanges == 2     \* rows of WB_changes.csv
MaxLen == 2         \* rows of a table handed to the resolver
MaxRows == 4        \* rows of a raw group file
MaxTableRows == 2   \* rows of a per-source table

None == "None"
NaN == "NaN"

WBIds == {"W1", "W2"}           \* WormBase gene identifiers
ENSGIds == {"H1", "H2"}         \* Ensembl gene identifiers
Comments == {"", "Dead"}        \* third column of WB_changes.csv
InputIds == WBIds \cup {NaN}    \* CE_WB_OLD after a left merge may be NaN

IsNull(v) == v = None \/ v = NaN

\* The order of Python's string comparison on the identifiers of the model.
StrOrder ==
    <<"GO:A", "GO:a", "GO:b", "H1", "H2", "L1", "L2", "OMA", "ORTHOMCL", "SM1", "SM2",
      "W0", "W1", "W2", "W9", "go:a", "go:b">>
StrRank(s) == CHOOSE i \in 1..Len(StrOrder) : StrOrder[i] = s

Range(s) == {s[i] : i \in 1..Len(s)}
SeqsUpTo(S, n) == UNION {[1..k -> S] : k \in 0..n}

----------------------------------------------------------------------------
(* helper/wb_map.py *)

\* LoadRow with an empty comment turned into None as the empty current is.
LoadRow_EmptyCommentNone(map, row) ==
    LET old == row[1]
        current == IF row[2] = "" THEN None ELSE row[2]
        comment == IF row[3] = "" THEN None ELSE row[3]
    IN  [k \in (DOMAIN map) \cup {old} |->
            IF k = old THEN <<current, comment>> ELSE map[k]]

\* One iteration of the loop that fills WB_OLD_TO_CURRENT_MAP.
LoadRow(map, row) ==
    LET old == row[1]
        current == IF row[2] = "" THEN None ELSE row[2]
        comment == row[3]
    IN  [k \in (DOMAIN map) \cup {old} |->
            IF k = old THEN <<current, comment>> ELSE map[k]]

RECURSIVE LoadMapUpTo(_, _)
LoadMapUpTo(rows, n) ==
    IF n = 0 THEN [k \in {} |-> <<None, "">>]
    ELSE LoadRow(LoadMapUpTo(rows, n - 1), rows[n])

LoadMap(rows) == LoadMapUpTo(rows, Len(rows))

get_ce_wb_current(wb_id_old) ==
    IF wb_id_old \in DOMAIN WB_OLD_TO_CURRENT_MAP
    THEN WB_OLD_TO_CURRENT_MAP[wb_id_old][1]
    ELSE IF wb_id_old \in WB_WS255 THEN wb_id_old
    ELSE None

NotMapped == "Not mapped, not in WS255"

\* get_ce_wb_comment with the two tests in the other order.
get_ce_wb_comment_DirectoryFirst(wb_id_old) ==
    IF wb_id_old \in WB_WS255 THEN None
    ELSE IF wb_id_old \in DOMAIN WB_OLD_TO_CURRENT_MAP
    THEN WB_OLD_TO_CURRENT_MAP[wb_id_old][2]
    ELSE NotMapped

\* get_ce_wb_comment without the test on WB_WS255.
get_ce_wb_comment_NoDirectory(wb_id_old) ==
    IF wb_id_old \in DOMAIN WB_OLD_TO_CURRENT_MAP
    THEN WB_OLD_TO_CURRENT_MAP[wb_id_old][2]
    ELSE NotMapped

get_ce_wb_comment(wb_id_old) ==
    IF wb_id_old \in DOMAIN WB_OLD_TO_CURRENT_MAP
    THEN WB_OLD_TO_CURRENT_MAP[wb_id_old][2]
    ELSE IF wb_id_old \in WB_WS255 THEN None
    ELSE NotMapped

\* Series.apply: one result per row, under the row's index label.
ApplyCurrent(df) ==
    [i \in 1..Len(df) |-> [idx |-> df[i].idx, v |-> get_ce_wb_current(df[i].CE_WB_OLD)]]

ApplyComment(df) ==
    [i \in 1..Len(df) |-> [idx |-> df[i].idx, v |-> get_ce_wb_comment(df[i].CE_WB_OLD)]]

Index(df) == [i \in 1..Len(df) |-> df[i].idx]

\* The labels of two indexes in the order pandas' union gives them: the
\* labels of the first, then the labels only the second has.
RECURSIVE Dedup(_)
Dedup(s) ==
    IF s = <<>> THEN <<>>
    ELSE LET front == Dedup(SubSeq(s, 1, Len(s) - 1))
             x == s[Len(s)]
         IN  IF x \in Range(front) THEN front ELSE Append(front, x)

UnionIndex(a, b) == Dedup(a \o b)

\* The value a series holds under a label, NaN when it has none.
ValueAt(series, label) ==
    IF \E i \in 1..Len(series) : series[i].idx = label
    THEN series[CHOOSE i \in 1..Len(series) : series[i].idx = label].v
    ELSE NaN

\* pd.concat([ids, comments], axis=1) with the two columns renamed: equal
\* indexes are attached row by row, different ones are aligned on the union
\* of their labels.
ConcatSeries(ids, comments) ==
    IF Index(ids) = Index(comments)
    THEN [i \in 1..Len(ids) |->
            [idx |-> ids[i].idx, CE_WB_CURRENT |-> ids[i].v,
             CE_WB_COMMENT |-> comments[i].v]]
    ELSE LET labels == UnionIndex(Index(ids), Index(comments))
         IN  [i \in 1..Len(labels) |->
                [idx |-> labels[i], CE_WB_CURRENT |-> ValueAt(ids, labels[i]),
                 CE_WB_COMMENT |-> ValueAt(comments, labels[i])]]

\* The rows of a table that hold the first occurrence of their CE_WB_OLD.
RECURSIVE UniqueOld(_)
UniqueOld(df) ==
    IF df = <<>> THEN <<>>
    ELSE LET front == UniqueOld(SubSeq(df, 1, Len(df) - 1))
             r == df[Len(df)]
         IN  IF \E i \in 1..Len(front) : front[i].CE_WB_OLD = r.CE_WB_OLD
             THEN front ELSE Append(front, r)

\* get_ce_wb_updated resolving every distinct identifier once.
get_ce_wb_updated_PerUnique(df) ==
    ConcatSeries(ApplyCurrent(UniqueOld(df)), ApplyComment(UniqueOld(df)))

get_ce_wb_updated(df) == ConcatSeries(ApplyCurrent(df), ApplyComment(df))

----------------------------------------------------------------------------
(* databases/Database.py *)

Columns(df) == IF df = <<>> THEN {"idx"} ELSE DOMAIN df[1]

\* The row of a table under a label, all NaN when the table has none.
RowAt(df, label) ==
    IF \E i \in 1..Len(df) : df[i].idx = label
    THEN df[CHOOSE i \in 1..Len(df) : df[i].idx = label]
    ELSE [c \in Columns(df) |-> IF c = "idx" THEN label ELSE NaN]

\* pd.concat([df, new], axis=1): the columns of new attached to those of df.
ConcatFrames(df, new) ==
    IF Index(df) = Index(new)
    THEN [i \in 1..Len(df) |-> df[i] @@ new[i]]
    ELSE LET labels == UnionIndex(Index(df), Index(new))
         IN  [i \in 1..Len(labels) |-> RowAt(df, labels[i]) @@ RowAt(new, labels[i])]

\* The order of sort_values(['CE_WB_CURRENT', 'HS_ENSG']): ascending on the
\* first column, then on the second, a null after every value.
ColBefore_NullsFirst(x, y) ==
    \/ IsNull(x) /\ ~IsNull(y)
    \/ ~IsNull(x) /\ ~IsNull(y) /\ StrRank(x) < StrRank(y)
ColBefore(x, y) == ~IsNull(x) /\ (IsNull(y) \/ StrRank(x) < StrRank(y))
ColSame(x, y) == (IsNull(x) /\ IsNull(y)) \/ (~IsNull(x) /\ ~IsNull(y) /\ x = y)

RowBefore(r, s, by) ==
    \E k \in 1..Len(by) :
        /\ \A j \in 1..(k - 1) : ColSame(r[by[j]], s[by[j]])
        /\ ColBefore(r[by[k]], s[by[k]])

\* A stable sort (pandas sorts several columns with a stable lexsort): a row
\* goes after the rows that are not after it.
RECURSIVE InsertSorted(_, _, _)
InsertSorted(sorted, r, by) ==
    IF sorted = <<>> THEN <<r>>
    ELSE IF RowBefore(r, sorted[Len(sorted)], by)
         THEN Append(InsertSorted(SubSeq(sorted, 1, Len(sorted) - 1), r, by),
                     sorted[Len(sorted)])
         ELSE Append(sorted, r)

RECURSIVE sort_values(_, _)
sort_values(df, by) ==
    IF df = <<>> THEN <<>>
    ELSE InsertSorted(sort_values(SubSeq(df, 1, Len(df) - 1), by), df[Len(df)], by)

\* df[cols]: the columns of a table, under its labels.
Select(df, cols) == [i \in 1..Len(df) |-> [c \in cols \cup {"idx"} |-> df[i][c]]]

\* The equality of pandas' merge keys and duplicate tests: a null equals a null.
KeyMatch(x, y) == x = y \/ (IsNull(x) /\ IsNull(y))

\* The columns read as int64, which hold no null.
IntColumns == {"CE_ENTREZ", "HS_ENTREZ"}

Without(row, cols) == [c \in (DOMAIN row) \ cols |-> row[c]]

\* The two columns of a source's pair file.
NativeColumns(name) ==
    IF name = "Homologene" THEN <<"CE_ENTREZ", "HS_ENTREZ">>
    ELSE IF name = "OMA" THEN <<"CE_WORMPEP", "HS_ENSG">>
    ELSE IF name = "OrthoMCL" THEN <<"CE_WB_OLD", "HS_ENSP">>
    ELSE IF name = "Ortholist" THEN <<"CE_WB", "HS_ENSG">>
    ELSE <<"CE_UNIPROT", "HS_UNIPROT">>

\* pd.read_csv(file, names=[a, b]): one row per line under a RangeIndex.
read_csv(rows, names) ==
    [i \in 1..Len(rows) |->
        [c \in {"idx", names[1], names[2]} |->
            IF c = "idx" THEN i - 1 ELSE IF c = names[1] THEN rows[i][1] ELSE rows[i][2]]]

\* Two rows are duplicates when they agree on every column, a null agreeing
\* with a null.
SameRow(r, s) ==
    \A c \in (DOMAIN r) \ {"idx"} :
        IF c \in IntColumns THEN r[c] = s[c] ELSE KeyMatch(r[c], s[c])

\* DataFrame.drop_duplicates(): the first of every group of duplicates is
\* kept, under its label and in its place.
RECURSIVE drop_duplicates(_)
drop_duplicates(df) ==
    IF df = <<>> THEN <<>>
    ELSE LET front == drop_duplicates(SubSeq(df, 1, Len(df) - 1))
             r == df[Len(df)]
         IN  IF \E i \in 1..Len(front) : SameRow(front[i], r) THEN front
             ELSE Append(front, r)

_process_wb_changes(df) ==
    Select(sort_values(ConcatFrames(df, get_ce_wb_updated(df)), <<"CE_WB_CURRENT", "HS_ENSG">>),
           {"CE_WB_CURRENT", "HS_ENSG", "CE_WB_OLD", "CE_WB_COMMENT"})

----------------------------------------------------------------------------
(* The resolver: module import, then any sequence of calls, one at a time *)

ChangeRows == WBIds \X (WBIds \cup {""}) \X Comments

\* A table of raw pairs, as the mapping steps hand it to the resolver: a
\* RangeIndex after a merge on columns, or the left table's labels repeated
\* after a merge on the right table's index.
RawRows == [HS_ENSG : ENSGIds, CE_WB_OLD : InputIds]
RangeIndexed(rows) == [i \in 1..Len(rows) |->
    [idx |-> i - 1, HS_ENSG |-> rows[i].HS_ENSG, CE_WB_OLD |-> rows[i].CE_WB_OLD]]
LeftIndexed(rows) == [i \in 1..Len(rows) |->
    [idx |-> (i - 1) \div 2, HS_ENSG |-> rows[i].HS_ENSG, CE_WB_OLD |-> rows[i].CE_WB_OLD]]
RawFrames ==
    {RangeIndexed(r) : r \in SeqsUpTo(RawRows, MaxLen)}
        \cup {LeftIndexed(r) : r \in SeqsUpTo(RawRows, MaxLen)}

NoCall == [fn |-> "none", arg |-> None, ret |-> None]

\* current_group['group_id'] is None before the first row; the group ids read
\* from a file are positive integers.
NoGroupId == -1
NoGroup == [group_id |-> NoGroupId, cele |-> <<>>, hsap |-> <<>>]
NoFile == [exists |-> FALSE, header |-> <<>>, rows |-> <<>>]

\* No group file is being expanded.
ExpandIdle ==
    /\ source = "none"
    /\ reader = <<>>
    /\ pos = 0
    /\ current_group = NoGroup
    /\ groups = <<>>
    /\ ortholog_list = <<>>
    /\ ortholog_file = NoFile
    /\ raw_df = <<>>
    /\ pc = "idle"

\* No master table is being built.
MasterIdle ==
    /\ DATABASES = <<>>
    /\ ahringer_csv = <<>>
    /\ protein_domains = <<>>
    /\ ensembl_tsv = <<>>
    /\ WORMBASE = <<>>
    /\ db_pos = 0
    /\ selected = <<>>
    /\ row_pos = 0
    /\ all_pairs = <<>>
    /\ master_df = <<>>
    /\ stage = "idle"

\* No per-source table is being built.
SourceIdle ==
    /\ impl = "none"
    /\ db_name = "none"
    /\ data = <<>>
    /\ self_df = <<>>
    /\ step = "idle"
    /\ exc = "none"

\* One run, in which no preprocessing script is launched.
RunsIdle ==
    /\ run = 1
    /\ preprocessed = TRUE
    /\ script = "none"

Init ==
    /\ RunsIdle
    /\ WB_WS255 \in SUBSET WBIds
    /\ wb_changes_csv \in SeqsUpTo(ChangeRows, MaxChanges)
    /\ WB_OLD_TO_CURRENT_MAP = LoadMap(wb_changes_csv)
    /\ call = NoCall
    /\ ExpandIdle
    /\ MasterIdle
    /\ SourceIdle

\* CallCurrent that stores the answer it computed in the deprecation map.
CallCurrent_Memoize ==
    /\ call = NoCall
    /\ \E id \in InputIds :
        /\ call' = [fn |-> "get_ce_wb_current", arg |-> id, ret |-> get_ce_wb_current(id)]
        /\ WB_OLD_TO_CURRENT_MAP' =
                [k \in (DOMAIN WB_OLD_TO_CURRENT_MAP) \cup {id} |->
                    IF k \in DOMAIN WB_OLD_TO_CURRENT_MAP THEN WB_OLD_TO_CURRENT_MAP[k]
                    ELSE <<get_ce_wb_current(id), get_ce_wb_comment(id)>>]
    /\ UNCHANGED <<runVars, WB_WS255, wb_changes_csv, expandVars, masterVars, sourceVars>>

CallCurrent ==
    /\ call = NoCall
    /\ \E id \in InputIds :
        call' = [fn |-> "get_ce_wb_current", arg |-> id, ret |-> get_ce_wb_current(id)]
    /\ UNCHANGED <<runVars, WB_WS255, wb_changes_csv, WB_OLD_TO_CURRENT_MAP, expandVars, masterVars, sourceVars>>

CallComment ==
    /\ call = NoCall
    /\ \E id \in InputIds :
        call' = [fn |-> "get_ce_wb_comment", arg |-> id, ret |-> get_ce_wb_comment(id)]
    /\ UNCHANGED <<runVars, WB_WS255, wb_changes_csv, WB_OLD_TO_CURRENT_MAP, expandVars, masterVars, sourceVars>>

CallUpdated ==
    /\ call = NoCall
    /\ \E df \in RawFrames :
        call' = [fn |-> "get_ce_wb_updated", arg |-> df, ret |-> get_ce_wb_updated(df)]
    /\ UNCHANGED <<runVars, WB_WS255, wb_changes_csv, WB_OLD_TO_CURRENT_MAP, expandVars, masterVars, sourceVars>>

CallProcessWbChanges ==
    /\ call = NoCall
    /\ \E df \in RawFrames :
        call' = [fn |-> "_process_wb_changes", arg |-> df, ret |-> _process_wb_changes(df)]
    /\ UNCHANGED <<runVars, WB_WS255, wb_changes_csv, WB_OLD_TO_CURRENT_MAP, expandVars, masterVars, sourceVars>>

\* The caller takes the result; the next call can start.
Return ==
    /\ call # NoCall
    /\ call' = NoCall
    /\ UNCHANGED <<runVars, WB_WS255, wb_changes_csv, WB_OLD_TO_CURRENT_MAP, expandVars, masterVars, sourceVars>>

Next == CallCurrent \/ CallComment \/ CallUpdated \/ CallProcessWbChanges \/ Return

Spec == Init /\ [][Next]_vars

----------------------------------------------------------------------------
(* helper/misc.py *)

\* The pairs of two lists, the first list varying slowest (itertools.product).
Product(a, b) ==
    [k \in 1..(Len(a) * Len(b)) |->
        <<a[((k - 1) \div Len(b)) + 1], b[((k - 1) % Len(b)) + 1]>>]

generate_combinations(group) == Product(group.cele, group.hsap)

----------------------------------------------------------------------------
(* The streaming expanders: Homologene._make_homologene_table and            *)
(* InParanoid._make_inparanoid_table (run.py holds a copy of each)           *)

GroupIds == {1, 2}
EntrezIds == {11, 12}
UniprotIds == {"P1", "P2"}

CeleTaxonomy == 6239
HsapTaxonomy == 9606
OtherTaxonomy == 10090

HomologeneRows == [group_id : GroupIds, kind : {CeleTaxonomy, HsapTaxonomy, OtherTaxonomy},
                   gene_info : EntrezIds]
InParanoidRows == [group_id : GroupIds, kind : {"C.elegans", "H.sapiens"},
                   gene_info : UniprotIds]

HomologeneSide(taxonomy_id) ==
    IF taxonomy_id = CeleTaxonomy THEN "cele"
    ELSE IF taxonomy_id = HsapTaxonomy THEN "hsap"
    ELSE "none"

InParanoidSide(species) ==
    IF species = "C.elegans" THEN "cele"
    ELSE IF species = "H.sapiens" THEN "hsap"
    ELSE "none"

\* The pairs a group adds when it is left: none unless both sides have members.
Flush(group, list) ==
    IF Len(group.cele) > 0 /\ Len(group.hsap) > 0
    THEN list \o generate_combinations(group)
    ELSE list

\* NextGroup that empties the worm side only.
NextGroup_KeepHsap(group, group_id) ==
    [group EXCEPT !.group_id = group_id, !.cele = <<>>]

\* NextGroup that assigns the group id only.
NextGroup_KeepMembers(group, group_id) ==
    [group EXCEPT !.group_id = group_id]

\* current_group after the three assignments made at a change of group id.
NextGroup(group, group_id) ==
    [group EXCEPT !.group_id = group_id, !.cele = <<>>, !.hsap = <<>>]

AddMember(group, side, gene_info) ==
    IF side = "cele" THEN [group EXCEPT !.cele = Append(@, gene_info)]
    ELSE IF side = "hsap" THEN [group EXCEPT !.hsap = Append(@, gene_info)]
    ELSE group

\* One iteration of the loop over the rows of the raw file.
StreamRow(side) ==
    /\ pc = "rows"
    /\ pos < Len(reader)
    /\ LET row == reader[pos + 1]
           boundary == row.group_id # current_group.group_id
       IN  /\ ortholog_list' = IF boundary THEN Flush(current_group, ortholog_list)
                               ELSE ortholog_list
           /\ current_group' =
                AddMember(IF boundary THEN NextGroup(current_group, row.group_id)
                          ELSE current_group,
                          side, row.gene_info)
    /\ pos' = pos + 1
    /\ UNCHANGED <<runVars, source, reader, groups, ortholog_file, raw_df, pc, resolverVars, masterVars, sourceVars>>

\* The whole loop of a streaming expander over records [group_id, side,
\* gene_info], none being the group id before the first record: the group
\* and the list of pairs after the last record.
RECURSIVE StreamLoop(_, _)
StreamLoop(records, none) ==
    IF records = <<>> THEN [group |-> [group_id |-> none, cele |-> <<>>, hsap |-> <<>>],
                            list |-> <<>>]
    ELSE LET st == StreamLoop(SubSeq(records, 1, Len(records) - 1), none)
             row == records[Len(records)]
             boundary == row.group_id # st.group.group_id
         IN  [list |-> IF boundary THEN Flush(st.group, st.list) ELSE st.list,
              group |-> AddMember(IF boundary THEN NextGroup(st.group, row.group_id)
                                  ELSE st.group,
                                  row.side, row.gene_info)]

\* The pairs a streaming expander writes for a file of records.
StreamPairs(records, none) ==
    Flush(StreamLoop(records, none).group, StreamLoop(records, none).list)

\* StreamEnd that writes the file without flushing the last group.
StreamEnd_NoFlush(header) ==
    /\ pc = "rows"
    /\ pos = Len(reader)
    /\ ortholog_list' = ortholog_list
    /\ ortholog_file' = [exists |-> TRUE, header |-> header, rows |-> ortholog_list']
    /\ pc' = "done"
    /\ UNCHANGED <<runVars, source, reader, pos, current_group, groups, raw_df, resolverVars, masterVars, sourceVars>>

\* After the last row: the last group is flushed and the pairs are written
\* to the ortholog file under a header line.
StreamEnd(header) ==
    /\ pc = "rows"
    /\ pos = Len(reader)
    /\ ortholog_list' = Flush(current_group, ortholog_list)
    /\ ortholog_file' = [exists |-> TRUE, header |-> header, rows |-> ortholog_list']
    /\ pc' = "done"
    /\ UNCHANGED <<runVars, source, reader, pos, current_group, groups, raw_df, resolverVars, masterVars, sourceVars>>

HomologeneRow ==
    /\ source = "Homologene"
    /\ pos < Len(reader)
    /\ StreamRow(HomologeneSide(reader[pos + 1].kind))

HomologeneEnd ==
    /\ source = "Homologene"
    /\ StreamEnd(<<"entrez_id_cele", "entrez_id_hsap">>)

InParanoidRow ==
    /\ source = "InParanoid"
    /\ pos < Len(reader)
    /\ StreamRow(InParanoidSide(reader[pos + 1].kind))

InParanoidEnd ==
    /\ source = "InParanoid"
    /\ StreamEnd(<<"uniprot_id_cele", "uniprot_id_hsap">>)

----------------------------------------------------------------------------
(* The dictionary-based expander: OrthoMCL._read_raw *)

\* Identifiers as <<prefix, number>>, so that startswith is a test on the prefix.
OrthoMCLSourceIds == {<<"WBGene", 1>>, <<"WBGene", 2>>, <<"ENSP", 1>>, <<"ENSP", 2>>}
OrthoMCLGroupIds == {"OG1", "OG2"}
OrthoMCLRows == [source_id : OrthoMCLSourceIds, group_id : OrthoMCLGroupIds]

startswith(source_id, prefix) == source_id[1] = prefix

HasKey(d, key) == \E i \in 1..Len(d) : d[i].group_id = key
KeyPos(d, key) == CHOOSE i \in 1..Len(d) : d[i].group_id = key

\* AddToGroups that assigns the member instead of adding it.
AddToGroups_Assign(d, row) ==
    LET d0 == IF HasKey(d, row.group_id) THEN d
              ELSE Append(d, [group_id |-> row.group_id, cele |-> {}, hsap |-> {}])
        k == KeyPos(d0, row.group_id)
    IN  IF startswith(row.source_id, "WBGene")
        THEN [d0 EXCEPT ![k].cele = {row.source_id}]
        ELSE [d0 EXCEPT ![k].hsap = {row.source_id}]

\* groups[group_id]['cele'].add(source_id) or groups[group_id]['hsap'].add(source_id):
\* a missing key is inserted with empty sets, after the keys already there.
AddToGroups(d, row) ==
    LET d0 == IF HasKey(d, row.group_id) THEN d
              ELSE Append(d, [group_id |-> row.group_id, cele |-> {}, hsap |-> {}])
        k == KeyPos(d0, row.group_id)
    IN  IF startswith(row.source_id, "WBGene")
        THEN [d0 EXCEPT ![k].cele = @ \cup {row.source_id}]
        ELSE [d0 EXCEPT ![k].hsap = @ \cup {row.source_id}]

\* The orders in which a set can be iterated.
Orders(S) == {f \in [1..Cardinality(S) -> S] : Range(f) = S}

\* The whole loop of OrthoMCL._read_raw over the rows of a file, and the
\* pairs its groups expand to, as a set.
RECURSIVE DictLoop(_)
DictLoop(rows) ==
    IF rows = <<>> THEN <<>>
    ELSE AddToGroups(DictLoop(SubSeq(rows, 1, Len(rows) - 1)), rows[Len(rows)])

DictPairs(rows) ==
    LET d == DictLoop(rows)
    IN  UNION {Range(generate_combinations([group_id |-> d[k].group_id,
                                            cele |-> cele, hsap |-> hsap])) :
                    <<k, cele, hsap>> \in
                        UNION {{k} \X Orders(d[k].cele) \X Orders(d[k].hsap) : k \in 1..Len(d)}}

\* DataFrame.drop_duplicates: the first row of every value is kept, under its label.
RECURSIVE DropDuplicatePairs(_)
DropDuplicatePairs(df) ==
    IF df = <<>> THEN <<>>
    ELSE LET front == DropDuplicatePairs(SubSeq(df, 1, Len(df) - 1))
             r == df[Len(df)]
         IN  IF \E i \in 1..Len(front) :
                    front[i].CE_WB_OLD = r.CE_WB_OLD /\ front[i].HS_ENSP = r.HS_ENSP
             THEN front ELSE Append(front, r)

PairFrame(list) ==
    [i \in 1..Len(list) |-> [idx |-> i - 1, CE_WB_OLD |-> list[i][1], HS_ENSP |-> list[i][2]]]

OrthoMCLRow ==
    /\ source = "OrthoMCL"
    /\ pc = "rows"
    /\ pos < Len(reader)
    /\ groups' = AddToGroups(groups, reader[pos + 1])
    /\ pos' = pos + 1
    /\ UNCHANGED <<runVars, source, reader, current_group, ortholog_list, ortholog_file, raw_df, pc,
                   resolverVars, masterVars, sourceVars>>

\* The file is exhausted and closed; the loop over the keys starts.
OrthoMCLEndOfFile ==
    /\ source = "OrthoMCL"
    /\ pc = "rows"
    /\ pos = Len(reader)
    /\ pc' = "expand"
    /\ pos' = 0
    /\ UNCHANGED <<runVars, source, reader, current_group, groups, ortholog_list, ortholog_file, raw_df,
                   resolverVars, masterVars, sourceVars>>

\* One iteration of the loop over the keys; the two sets are iterated in
\* some order.
OrthoMCLExpandKey ==
    /\ source = "OrthoMCL"
    /\ pc = "expand"
    /\ pos < Len(groups)
    /\ \E cele \in Orders(groups[pos + 1].cele), hsap \in Orders(groups[pos + 1].hsap) :
        ortholog_list' = ortholog_list \o
            generate_combinations([group_id |-> groups[pos + 1].group_id,
                                   cele |-> cele, hsap |-> hsap])
    /\ pos' = pos + 1
    /\ UNCHANGED <<runVars, source, reader, current_group, groups, ortholog_file, raw_df, pc,
                   resolverVars, masterVars, sourceVars>>

OrthoMCLFrame ==
    /\ source = "OrthoMCL"
    /\ pc = "expand"
    /\ pos = Len(groups)
    /\ raw_df' = DropDuplicatePairs(PairFrame(ortholog_list))
    /\ pc' = "done"
    /\ UNCHANGED <<runVars, source, reader, pos, current_group, groups, ortholog_list, ortholog_file,
                   resolverVars, masterVars, sourceVars>>

----------------------------------------------------------------------------
(* The readers of the ortholog file the streaming expanders wrote *)

\* Homologene._read_raw and InParanoid._read_raw: the pairs of the ortholog
\* file without duplicates.
ClassReadRaw(name) ==
    /\ source = name
    /\ pc = "done"
    /\ raw_df' = drop_duplicates(read_csv(ortholog_file.rows, NativeColumns(name)))
    /\ impl' = "class"
    /\ pc' = "read"
    /\ UNCHANGED <<runVars, source, reader, pos, current_group, groups, ortholog_list, ortholog_file,
                   db_name, data, self_df, step, exc, resolverVars, masterVars>>

\* run.py's get_homologene and get_inparanoid: the pairs of the ortholog
\* file as they are.
RunReadRaw(name) ==
    /\ source = name
    /\ pc = "done"
    /\ raw_df' = read_csv(ortholog_file.rows, NativeColumns(name))
    /\ impl' = "run"
    /\ pc' = "read"
    /\ UNCHANGED <<runVars, source, reader, pos, current_group, groups, ortholog_list, ortholog_file,
                   db_name, data, self_df, step, exc, resolverVars, masterVars>>

HomologeneReadRaw == ClassReadRaw("Homologene")
InParanoidReadRaw == ClassReadRaw("InParanoid")
get_homologene == RunReadRaw("Homologene")
get_inparanoid == RunReadRaw("InParanoid")

----------------------------------------------------------------------------
(* Group expansion: a raw group file is read and expanded *)

ResolverIdle ==
    /\ WB_WS255 = {}
    /\ wb_changes_csv = <<>>
    /\ WB_OLD_TO_CURRENT_MAP = LoadMap(<<>>)
    /\ call = NoCall

RawFiles(src) ==
    IF src = "Homologene" THEN SeqsUpTo(HomologeneRows, MaxRows)
    ELSE IF src = "InParanoid" THEN SeqsUpTo(InParanoidRows, MaxRows)
    ELSE SeqsUpTo(OrthoMCLRows, MaxRows)

InitExpand ==
    /\ RunsIdle
    /\ ResolverIdle
    /\ MasterIdle
    /\ SourceIdle
    /\ source \in {"Homologene", "InParanoid", "OrthoMCL"}
    /\ reader \in RawFiles(source)
    /\ pos = 0
    /\ current_group = NoGroup
    /\ groups = <<>>
    /\ ortholog_list = <<>>
    /\ ortholog_file = NoFile
    /\ raw_df = <<>>
    /\ pc = "rows"

NextExpand ==
    \/ HomologeneRow \/ HomologeneEnd
    \/ InParanoidRow \/ InParanoidEnd
    \/ OrthoMCLRow \/ OrthoMCLEndOfFile \/ OrthoMCLExpandKey \/ OrthoMCLFrame
    \/ HomologeneReadRaw \/ InParanoidReadRaw \/ get_homologene \/ get_inparanoid

SpecExpand == InitExpand /\ [][NextExpand]_vars

----------------------------------------------------------------------------
(* Runs of the program: the ortholog files stay on disk between two runs *)

MaxRuns == 2        \* runs of the program

\* The raw group files of a run: no group; one group of a pair; two groups.
RunFiles(name) ==
    LET cele == IF name = "Homologene" THEN CeleTaxonomy ELSE "C.elegans"
        hsap == IF name = "Homologene" THEN HsapTaxonomy ELSE "H.sapiens"
        a == IF name = "Homologene" THEN 11 ELSE "P1"
        b == IF name = "Homologene" THEN 12 ELSE "P2"
    IN  {<<>>,
         <<[group_id |-> 1, kind |-> cele, gene_info |-> a],
           [group_id |-> 1, kind |-> hsap, gene_info |-> b]>>,
         <<[group_id |-> 1, kind |-> cele, gene_info |-> a],
           [group_id |-> 1, kind |-> hsap, gene_info |-> b],
           [group_id |-> 2, kind |-> cele, gene_info |-> b],
           [group_id |-> 2, kind |-> hsap, gene_info |-> a],
           [group_id |-> 2, kind |-> hsap, gene_info |-> b]>>}

\* data/orthoinspector/orthologs.csv, which preprocess.sh leaves: missing,
\* or with one pair.
OrthoInspectorFiles ==
    {NoFile, [exists |-> TRUE, header |-> <<>>, rows |-> <<<<"P1", "Q1">>>>]}

\* The rows of a raw group file as the loop takes them: group, side, member.
SideRecords(name, rows) ==
    [i \in 1..Len(rows) |->
        [group_id |-> rows[i].group_id,
         side |-> IF name = "Homologene" THEN HomologeneSide(rows[i].kind)
                  ELSE InParanoidSide(rows[i].kind),
         gene_info |-> rows[i].gene_info]]

\* _make_homologene_table and _make_inparanoid_table as a whole: the file
\* they write for a raw group file.
make_table(name, rows) ==
    [exists |-> TRUE,
     header |-> IF name = "Homologene" THEN <<"entrez_id_cele", "entrez_id_hsap">>
                ELSE <<"uniprot_id_cele", "uniprot_id_hsap">>,
     rows |-> StreamPairs(SideRecords(name, rows), NoGroupId)]

\* The table a reader makes of the rows of an ortholog file: the classes
\* drop the duplicates, run.py does not.
read_orthologs(name, rows) ==
    IF impl = "class" THEN drop_duplicates(read_csv(rows, NativeColumns(name)))
    ELSE read_csv(rows, NativeColumns(name))

\* if not preprocessed: the branch of get_homologene and get_orthoinspector
\* that launches preprocess.sh.
Launches == impl = "run" /\ source \in {"Homologene", "OrthoInspector"} /\ ~preprocessed

\* Where a run is when it comes to the ortholog file.
AtFile == pc = IF Launches THEN "launched" ELSE "start"

\* subprocess.Popen(['./preprocess.sh'], ...): the script is started and the
\* function goes on without waiting for it.
Popen ==
    /\ pc = "start"
    /\ Launches
    /\ script' = "running"
    /\ pc' = "launched"
    /\ UNCHANGED <<run, preprocessed, source, reader, pos, current_group, groups, ortholog_list,
                   ortholog_file, raw_df, resolverVars, masterVars, sourceVars>>

\* The script ends, at any moment after its start.
ScriptExit ==
    /\ script = "running"
    /\ script' = "finished"
    /\ UNCHANGED <<run, preprocessed, expandVars, resolverVars, masterVars, sourceVars>>

\* if not os.path.isfile(ortholog_file)
IsFile ==
    /\ source \in {"Homologene", "InParanoid"}
    /\ AtFile
    /\ pc' = IF ortholog_file.exists THEN "present" ELSE "missing"
    /\ UNCHANGED <<runVars, source, reader, pos, current_group, groups, ortholog_list,
                   ortholog_file, raw_df, resolverVars, masterVars, sourceVars>>

\* The table is made of the raw group file when the ortholog file is missing.
MakeTable ==
    /\ pc = "missing"
    /\ ortholog_file' = make_table(source, reader)
    /\ ortholog_list' = ortholog_file'.rows
    /\ pc' = "present"
    /\ UNCHANGED <<runVars, source, reader, pos, current_group, groups, raw_df,
                   resolverVars, masterVars, sourceVars>>

\* pd.read_csv of the ortholog file, which raises when the file is missing;
\* OrthoInspector's is read without a test.
ReadOrthologs ==
    /\ pc = "present" \/ (source = "OrthoInspector" /\ AtFile)
    /\ IF ortholog_file.exists
       THEN /\ raw_df' = read_orthologs(source, ortholog_file.rows)
            /\ pc' = "read"
            /\ UNCHANGED exc
       ELSE /\ exc' = "FileNotFoundError"
            /\ pc' = "raised"
            /\ UNCHANGED raw_df
    /\ UNCHANGED <<runVars, source, reader, pos, current_group, groups, ortholog_list,
                   ortholog_file, impl, db_name, data, self_df, step, resolverVars, masterVars>>

\* The program is run again: its memory is new, the files on disk are those
\* the run before left, the raw group file may have been replaced, and a
\* script still running goes on.
NewRun ==
    /\ pc \in {"read", "raised"}
    /\ run < MaxRuns
    /\ run' = run + 1
    /\ reader' \in IF source = "OrthoInspector" THEN {<<>>} ELSE RunFiles(source)
    /\ ortholog_list' = <<>>
    /\ raw_df' = <<>>
    /\ exc' = "none"
    /\ pc' = "start"
    /\ UNCHANGED <<preprocessed, script, source, pos, current_group, groups, ortholog_file,
                   impl, db_name, data, self_df, step, resolverVars, masterVars>>

InitRuns ==
    /\ ResolverIdle
    /\ MasterIdle
    /\ impl \in {"class", "run"}
    /\ db_name = "none"
    /\ data = <<>>
    /\ self_df = <<>>
    /\ step = "idle"
    /\ exc = "none"
    /\ source \in {"Homologene", "InParanoid", "OrthoInspector"}
    /\ reader \in IF source = "OrthoInspector" THEN {<<>>} ELSE RunFiles(source)
    /\ pos = 0
    /\ current_group = NoGroup
    /\ groups = <<>>
    /\ ortholog_list = <<>>
    /\ ortholog_file \in IF source = "OrthoInspector" THEN OrthoInspectorFiles ELSE {NoFile}
    /\ raw_df = <<>>
    /\ pc = "start"
    /\ run = 1
    /\ preprocessed \in IF impl = "run" /\ source \in {"Homologene", "OrthoInspector"}
                        THEN BOOLEAN ELSE {TRUE}
    /\ script = "none"

NextRuns == Popen \/ ScriptExit \/ IsFile \/ MakeTable \/ ReadOrthologs \/ NewRun

SpecRuns == InitRuns /\ [][NextRuns]_vars

----------------------------------------------------------------------------
(* run.py: get_wormbase_table *)

\* The rows of the WS255 geneIDs file: taxon, gene id, common name, locus id.
GeneIDsFile == <<<<"6239", "W1", "aap-1", "Y110A7A.10">>, <<"6239", "W2", "aat-1", "F27C8.1">>>>

Matches(right, on, v) ==
    SelectSeq(right, LAMBDA r : IF on \in IntColumns THEN r[on] = v ELSE KeyMatch(r[on], v))
RangeIndex(rows) == [i \in 1..Len(rows) |-> [idx |-> i - 1] @@ Without(rows[i], {"idx"})]

\* The rows one left row gives in a left merge: one per matching right row,
\* or one with the right columns missing.
MergeRow_Inner(l, right, on, rightCols) ==
    LET m == Matches(right, on, l[on])
    IN  [i \in 1..Len(m) |-> l @@ Without(m[i], {"idx"})]
MergeRow_FirstHit(l, right, on, rightCols) ==
    LET m == Matches(right, on, l[on])
    IN  IF m = <<>> THEN <<l @@ [c \in rightCols \ {on, "idx"} |-> NaN]>>
        ELSE <<l @@ Without(m[1], {"idx"})>>
MergeRow(l, right, on, rightCols) ==
    LET m == Matches(right, on, l[on])
    IN  IF m = <<>> THEN <<l @@ [c \in rightCols \ {on, "idx"} |-> NaN]>>
        ELSE [i \in 1..Len(m) |-> l @@ Without(m[i], {"idx"})]

RECURSIVE MergeRows(_, _, _, _)
MergeRows(left, right, on, rightCols) ==
    IF left = <<>> THEN <<>>
    ELSE MergeRows(SubSeq(left, 1, Len(left) - 1), right, on, rightCols)
            \o MergeRow(left[Len(left)], right, on, rightCols)

\* pd.merge(left, right, how='left', on=on)
LeftMerge(left, right, on, rightCols) == RangeIndex(MergeRows(left, right, on, rightCols))

\* sep.join(parts), kept as its separator and its parts.
Join(sep, parts) == [sep |-> sep, parts |-> parts]

wb_df ==
    [i \in 1..Len(GeneIDsFile) |->
        [idx |-> i - 1, CE_WB_CURRENT |-> GeneIDsFile[i][2],
         COMMON_NAME |-> GeneIDsFile[i][3], LOCUS_ID |-> GeneIDsFile[i][4]]]

ahringer_df ==
    LET raw == [i \in 1..Len(ahringer_csv) |->
                    [idx |-> i - 1, AHRINGER_LOC |-> ahringer_csv[i][1],
                     CE_WB_OLD |-> ahringer_csv[i][2]]]
    IN  RangeIndex(sort_values(ConcatFrames(raw, get_ce_wb_updated(raw)),
                               <<"CE_WB_CURRENT", "AHRINGER_LOC">>))

interpro_df ==
    LET lines == SelectSeq(protein_domains, LAMBDA line : Len(line.domains) > 0)
    IN  [i \in 1..Len(lines) |->
            [idx |-> i - 1, CE_WB_CURRENT |-> lines[i].wb_id,
             INTERPRO_DOM |-> Join("|", lines[i].domains)]]

get_wormbase_table ==
    LET m1 == LeftMerge(wb_df, ahringer_df, "CE_WB_CURRENT",
                  {"AHRINGER_LOC", "CE_WB_OLD", "CE_WB_CURRENT", "CE_WB_COMMENT"})
        m2 == LeftMerge(m1, interpro_df, "CE_WB_CURRENT", {"CE_WB_CURRENT", "INTERPRO_DOM"})
    IN  [i \in 1..Len(m2) |-> Without(m2[i], {"CE_WB_OLD", "CE_WB_COMMENT"})]

----------------------------------------------------------------------------
(* run.py: the master table *)

\* The names of the sources that take part, in the order of the DATABASES list.
DatabaseNames == <<"ORTHOMCL", "OMA">>

\* nn testing the worm identifier only.
nn_WormOnly(row) == ~IsNull(row.CE_WB_CURRENT)

\* db['CE_WB_CURRENT'].notnull() & db['HS_ENSG'].notnull()
nn(row) == ~IsNull(row.CE_WB_CURRENT) /\ ~IsNull(row.HS_ENSG)

\* db[['CE_WB_CURRENT','HS_ENSG']][nn].values
Selected(db) ==
    LET rows == SelectSeq(db, nn)
    IN  [i \in 1..Len(rows) |-> <<rows[i].CE_WB_CURRENT, rows[i].HS_ENSG>>]

HasPair(d, key) == \E i \in 1..Len(d) : d[i].key = key
PairPos(d, key) == CHOOSE i \in 1..Len(d) : d[i].key = key

\* AddName replacing the set of the key by the one name.
AddName_Overwrite(d, key, name) ==
    IF HasPair(d, key) THEN [d EXCEPT ![PairPos(d, key)].names = {name}]
    ELSE Append(d, [key |-> key, names |-> {name}])

\* AddName that leaves the set of a key already there as it is.
AddName_FirstOnly(d, key, name) ==
    IF HasPair(d, key) THEN d
    ELSE Append(d, [key |-> key, names |-> {name}])

\* all_pairs[(ce, hs)].add(name): a missing key is inserted with an empty
\* set, after the keys already there, and the name is added to the set.
AddName(d, key, name) ==
    LET d0 == IF HasPair(d, key) THEN d ELSE Append(d, [key |-> key, names |-> {}])
    IN  [d0 EXCEPT ![PairPos(d0, key)].names = @ \cup {name}]

\* The inner loop over the selected rows of one table, and the outer loop
\* over a list of tables, started with the dictionary d.
RECURSIVE FoldRows(_, _, _)
FoldRows(d, name, keys) ==
    IF keys = <<>> THEN d
    ELSE AddName(FoldRows(d, name, SubSeq(keys, 1, Len(keys) - 1)), keys[Len(keys)], name)

RECURSIVE FoldDatabases(_, _)
FoldDatabases(d, dbs) ==
    IF dbs = <<>> THEN d
    ELSE FoldRows(FoldDatabases(d, SubSeq(dbs, 1, Len(dbs) - 1)),
                  dbs[Len(dbs)].name, Selected(dbs[Len(dbs)].db))

\* sorted(list(v)) of a set of strings.
Sorted(S) ==
    CHOOSE f \in [1..Cardinality(S) -> S] :
        /\ Range(f) = S
        /\ \A i, j \in 1..Cardinality(S) : i < j => StrRank(f[i]) < StrRank(f[j])

\* MasterTuple taking the length of the key for the score.
MasterTuple_LenKey(entry) ==
    [CE_WB_CURRENT |-> entry.key[1], HS_ENSG |-> entry.key[2],
     Databases |-> Sorted(entry.names), Score |-> Len(entry.key)]

\* (k[0], k[1], sorted(list(v)), len(v))
MasterTuple(entry) ==
    [CE_WB_CURRENT |-> entry.key[1], HS_ENSG |-> entry.key[2],
     Databases |-> Sorted(entry.names), Score |-> Cardinality(entry.names)]

\* One step of the loop that fills ensembl_data: the gene gets an entry, a
\* non-empty SMART or GO term is added to its set, the first non-empty HGNC
\* name is kept.  An empty set or name stands for a key the entry lacks.
EnsemblRow(d, row) ==
    LET d0 == IF \E i \in 1..Len(d) : d[i].HS_ENSG = row.ensg THEN d
              ELSE Append(d, [HS_ENSG |-> row.ensg, SMART |-> {}, GO |-> {}, HGNC |-> ""])
        k == CHOOSE i \in 1..Len(d0) : d0[i].HS_ENSG = row.ensg
    IN  [d0 EXCEPT ![k].SMART = IF row.smart # "" THEN @ \cup {row.smart} ELSE @,
                   ![k].GO = IF row.go # "" THEN @ \cup {row.go} ELSE @,
                   ![k].HGNC = IF @ = "" /\ row.hgnc # "" THEN row.hgnc ELSE @]

RECURSIVE EnsemblData(_)
EnsemblData(rows) ==
    IF rows = <<>> THEN <<>>
    ELSE EnsemblRow(EnsemblData(SubSeq(rows, 1, Len(rows) - 1)), rows[Len(rows)])

\* DataFrame.from_dict(ensembl_data, orient='index') with the index made the
\* column HS_ENSG: a key an entry lacks is NaN.
ensembl_df ==
    LET d == EnsemblData(ensembl_tsv)
    IN  [i \in 1..Len(d) |->
            [idx |-> i - 1, HS_ENSG |-> d[i].HS_ENSG,
             SMART |-> IF d[i].SMART = {} THEN NaN ELSE d[i].SMART,
             GO |-> IF d[i].GO = {} THEN NaN ELSE d[i].GO,
             HGNC |-> IF d[i].HGNC = "" THEN NaN ELSE d[i].HGNC]]

\* WORMBASE = get_wormbase_table()
GetWormbaseTable ==
    /\ stage = "start"
    /\ WORMBASE' = get_wormbase_table
    /\ stage' = "fold"
    /\ UNCHANGED <<runVars, DATABASES, ahringer_csv, protein_domains, ensembl_tsv, db_pos, selected,
                   row_pos, all_pairs, master_df, resolverVars, expandVars, sourceVars>>

\* The outer loop of the master table takes the next table and selects its
\* rows with both identifiers.
FoldNextDatabase ==
    /\ stage = "fold"
    /\ row_pos = Len(selected)
    /\ db_pos < Len(DATABASES)
    /\ db_pos' = db_pos + 1
    /\ selected' = Selected(DATABASES[db_pos + 1].db)
    /\ row_pos' = 0
    /\ UNCHANGED <<runVars, DATABASES, ahringer_csv, protein_domains, ensembl_tsv, WORMBASE,
                   all_pairs, master_df, stage, resolverVars, expandVars, sourceVars>>

\* The inner loop adds the name of the table to the set of the row's pair.
FoldRow ==
    /\ stage = "fold"
    /\ row_pos < Len(selected)
    /\ all_pairs' = AddName(all_pairs, selected[row_pos + 1], DATABASES[db_pos].name)
    /\ row_pos' = row_pos + 1
    /\ UNCHANGED <<runVars, DATABASES, ahringer_csv, protein_domains, ensembl_tsv, WORMBASE, db_pos,
                   selected, master_df, stage, resolverVars, expandVars, sourceVars>>

\* master_tuples and the DataFrame made of them.
MasterTuples ==
    /\ stage = "fold"
    /\ row_pos = Len(selected)
    /\ db_pos = Len(DATABASES)
    /\ master_df' = RangeIndex([i \in 1..Len(all_pairs) |-> MasterTuple(all_pairs[i])])
    /\ stage' = "tuples"
    /\ UNCHANGED <<runVars, DATABASES, ahringer_csv, protein_domains, ensembl_tsv, WORMBASE, db_pos,
                   selected, row_pos, all_pairs, resolverVars, expandVars, sourceVars>>

\* master_df = pd.merge(master_df, WORMBASE, how='left', on='CE_WB_CURRENT')
MergeWormbase ==
    /\ stage = "tuples"
    /\ master_df' = LeftMerge(master_df, WORMBASE, "CE_WB_CURRENT",
            {"CE_WB_CURRENT", "COMMON_NAME", "LOCUS_ID", "AHRINGER_LOC", "INTERPRO_DOM"})
    /\ stage' = "wormbase"
    /\ UNCHANGED <<runVars, DATABASES, ahringer_csv, protein_domains, ensembl_tsv, WORMBASE, db_pos,
                   selected, row_pos, all_pairs, resolverVars, expandVars, sourceVars>>

\* master_df = pd.merge(master_df, ensembl_df, how='left', on='HS_ENSG')
MergeEnsembl ==
    /\ stage = "wormbase"
    /\ master_df' = LeftMerge(master_df, ensembl_df, "HS_ENSG",
            {"HS_ENSG", "SMART", "GO", "HGNC"})
    /\ stage' = "ensembl"
    /\ UNCHANGED <<runVars, DATABASES, ahringer_csv, protein_domains, ensembl_tsv, WORMBASE, db_pos,
                   selected, row_pos, all_pairs, resolverVars, expandVars, sourceVars>>

\* str.lower on the GO terms of the model.
lower(s) ==
    IF s = "GO:A" \/ s = "GO:a" THEN "go:a"
    ELSE IF s = "GO:b" THEN "go:b"
    ELSE s

\* sorted(list, key=lambda x: x.lower()): a stable sort, so two terms with
\* equal keys stay in the order the list had them.
RECURSIVE SortedLower(_)
SortedLower(list) ==
    IF list = <<>> THEN <<>>
    ELSE LET front == SortedLower(SubSeq(list, 1, Len(list) - 1))
             x == list[Len(list)]
             after == {i \in 1..Len(front) : StrRank(lower(x)) < StrRank(lower(front[i]))}
             k == IF after = {} THEN Len(front) + 1
                  ELSE CHOOSE i \in after : \A j \in after : i <= j
         IN  SubSeq(front, 1, k - 1) \o <<x>> \o SubSeq(front, k, Len(front))

\* isinstance(x, set) for the SMART or GO value of a master row: the merge
\* gave the row a set when ensembl_data has terms of that kind for its gene,
\* and NaN otherwise.
IsSet(row, col) ==
    \E k \in 1..Len(EnsemblData(ensembl_tsv)) :
        /\ EnsemblData(ensembl_tsv)[k].HS_ENSG = row.HS_ENSG
        /\ EnsemblData(ensembl_tsv)[k][col] # {}

\* The GO sets of the master table.
GoSets == {master_df[i].GO : i \in {k \in 1..Len(master_df) : IsSet(master_df[k], "GO")}}

\* The three apply calls that turn Databases, SMART and GO into strings;
\* list(x) of a set x gives its members in the order the set iterates.
SerializeRow(row, list) ==
    [row EXCEPT
        !.Databases = Join("|", Sorted(Range(row.Databases))),
        !.SMART = IF IsSet(row, "SMART") THEN Join("|", Sorted(row.SMART)) ELSE None,
        !.GO = IF IsSet(row, "GO") THEN Join("|", SortedLower(list[row.GO])) ELSE None]

Serialize ==
    /\ stage = "ensembl"
    /\ \E list \in [GoSets -> UNION {Orders(S) : S \in GoSets}] :
        /\ \A S \in GoSets : list[S] \in Orders(S)
        /\ master_df' = [i \in 1..Len(master_df) |-> SerializeRow(master_df[i], list)]
    /\ stage' = "serialized"
    /\ UNCHANGED <<runVars, DATABASES, ahringer_csv, protein_domains, ensembl_tsv, WORMBASE, db_pos,
                   selected, row_pos, all_pairs, resolverVars, expandVars, sourceVars>>

\* The per-source tables: rows of (CE_WB_CURRENT, HS_ENSG), either of them
\* possibly null, sorted as every source sorts its table, a row possibly
\* repeated.
TableRows == [CE_WB_CURRENT : WBIds \cup {None}, HS_ENSG : ENSGIds \cup {NaN}]
Tables == {sort_values(t, <<"CE_WB_CURRENT", "HS_ENSG">>) : t \in SeqsUpTo(TableRows, MaxTableRows)}

\* The annotation files of a run: no RNAi clone and no domain; one clone
\* for a gene, whose human partner has two GO terms that differ in case only;
\* two clones for one gene, one of them under a deprecated id.
AnnotationFiles ==
    {[ahringer |-> <<>>,
      domains |-> <<>>,
      ensembl |-> <<[ensg |-> "H1", smart |-> "SM1", go |-> "GO:a", hgnc |-> "HG1"]>>],
     [ahringer |-> <<<<"L1", "W1">>>>,
      domains |-> <<[wb_id |-> "W2", domains |-> <<"IPR1">>],
                    [wb_id |-> "W1", domains |-> <<>>]>>,
      ensembl |-> <<[ensg |-> "H1", smart |-> "SM1", go |-> "GO:a", hgnc |-> ""],
                    [ensg |-> "H1", smart |-> "SM2", go |-> "", hgnc |-> "HG1"],
                    [ensg |-> "H1", smart |-> "", go |-> "GO:A", hgnc |-> ""]>>],
     [ahringer |-> <<<<"L2", "W0">>, <<"L1", "W1">>>>,
      domains |-> <<[wb_id |-> "W2", domains |-> <<"IPR1">>]>>,
      ensembl |-> <<[ensg |-> "H1", smart |-> "SM1", go |-> "GO:a", hgnc |-> "HG1"]>>]}

InitMaster ==
    /\ RunsIdle
    /\ WB_WS255 = {GeneIDsFile[i][2] : i \in 1..Len(GeneIDsFile)}
    /\ wb_changes_csv = <<<<"W0", "W1", "">>>>
    /\ WB_OLD_TO_CURRENT_MAP = LoadMap(wb_changes_csv)
    /\ call = NoCall
    /\ ExpandIdle
    /\ SourceIdle
    /\ DATABASES \in {[i \in 1..Len(DatabaseNames) |-> [name |-> DatabaseNames[i], db |-> t[i]]] :
                        t \in [1..Len(DatabaseNames) -> Tables]}
    /\ \E files \in AnnotationFiles :
        /\ ahringer_csv = files.ahringer
        /\ protein_domains = files.domains
        /\ ensembl_tsv = files.ensembl
    /\ WORMBASE = <<>>
    /\ db_pos = 0
    /\ selected = <<>>
    /\ row_pos = 0
    /\ all_pairs = <<>>
    /\ master_df = <<>>
    /\ stage = "start"

NextMaster ==
    \/ GetWormbaseTable \/ FoldNextDatabase \/ FoldRow
    \/ MasterTuples \/ MergeWormbase \/ MergeEnsembl \/ Serialize

SpecMaster == InitMaster /\ [][NextMaster]_vars

----------------------------------------------------------------------------
(* The per-source tables: Database.__init__ and run.py's get_* functions *)

MaxPairs == 2       \* rows of a source's pair file
MaxMapRows == 2     \* rows of a primary crosswalk table

\* The left-merge sources map both sides through crosswalk tables; OMA maps
\* the worm side through a table indexed by OMA id.
LeftMergeSources == {"Homologene", "InParanoid", "OrthoInspector"}
SourceNames == LeftMergeSources \cup {"OMA"}

\* OrthoMCL has no worm crosswalk and maps the human side through a table
\* indexed by ENSP; the legacy Ortholist table has no crosswalk at all and no
\* function in run.py.
DatabaseSources == SourceNames \cup {"OrthoMCL", "Ortholist"}

\* The identifiers of the pair files: Entrez ids, UniProt accessions, OMA ids.
CeNative(name) ==
    IF name = "Homologene" THEN {11, 12}
    ELSE IF name = "OMA" THEN {"O1", "O2"}
    ELSE {"P1", "P2"}
HsNative(name) ==
    IF name = "Homologene" THEN {21}
    ELSE IF name = "OMA" THEN {"H1"}
    ELSE {"Q1"}

\* The WormBase ids of the crosswalk tables: one deprecated with a successor,
\* one current, one in neither the deprecation map nor WS255.
OldIds == {"W0", "W2", "W9"}

\* Wormpep accessions and the ids of other databases in oma-wormbase.txt,
\* as <<prefix, number>>.
WormpepIds == {<<"CE", 1>>, <<"CE", 2>>}

\* _read_raw of the class-based sources: the pair file without duplicates
\* (OMA's file is read as it is).
_read_raw(name, rows) ==
    IF name = "OMA" THEN read_csv(rows, NativeColumns(name))
    ELSE drop_duplicates(read_csv(rows, NativeColumns(name)))

\* The worm crosswalk of a left-merge source: the primary table and the
\* scraped one, concatenated.
WormMap(name) ==
    read_csv(data.worm_map, <<NativeColumns(name)[1], "CE_WB_OLD">>)
        \o read_csv(data.worm_scraped, <<NativeColumns(name)[1], "CE_WB_OLD">>)

\* The human crosswalk: Homologene concatenates the primary table and the
\* scraped one; InParanoid and OrthoInspector put the BioMart tables, without
\* duplicates, between the two and drop the duplicates of the whole.
HumanMap(name) ==
    LET cols == <<NativeColumns(name)[2], "HS_ENSG">>
    IN  IF name = "Homologene"
        THEN read_csv(data.human_map, cols) \o read_csv(data.human_scraped, cols)
        ELSE RangeIndex(drop_duplicates(
                read_csv(data.human_map, cols)
                    \o drop_duplicates(read_csv(data.human_biomart, cols))
                    \o read_csv(data.human_scraped, cols)))

\* wp_to_wb: the dictionary filled from the Wormpep table, a later row
\* replacing an earlier one with the same accession.
RECURSIVE wp_to_wb(_)
wp_to_wb(rows) ==
    IF rows = <<>> THEN [k \in {} |-> None]
    ELSE LET d == wp_to_wb(SubSeq(rows, 1, Len(rows) - 1))
             row == rows[Len(rows)]
         IN  [k \in (DOMAIN d) \cup {row[1]} |-> IF k = row[1] THEN row[2] ELSE d[k]]

\* The rows of oma-wormbase.txt that the loop does not skip.
WormpepRows(rows) == SelectSeq(rows, LAMBDA row : startswith(row[2], "CE"))

\* oma_to_wb[oma_id] = wp_to_wb[wp_id] raises KeyError for an accession the
\* Wormpep table lacks.
OmaKeyError ==
    \E i \in 1..Len(WormpepRows(data.oma_wormbase)) :
        WormpepRows(data.oma_wormbase)[i][2] \notin DOMAIN wp_to_wb(data.wormpep)

\* oma_to_wb as a table indexed by OMA id, in the order the keys were
\* inserted, a later row replacing the value of an earlier one.
RECURSIVE oma_to_wb(_)
oma_to_wb(rows) ==
    IF rows = <<>> THEN <<>>
    ELSE LET d == oma_to_wb(SubSeq(rows, 1, Len(rows) - 1))
             row == rows[Len(rows)]
             entry == [idx |-> row[1], CE_WB_OLD |-> wp_to_wb(data.wormpep)[row[2]]]
         IN  IF \E i \in 1..Len(d) : d[i].idx = row[1]
             THEN [d EXCEPT ![CHOOSE i \in 1..Len(d) : d[i].idx = row[1]] = entry]
             ELSE Append(d, entry)

\* oma_to_wb.columns = ['CE_WB_OLD'] raises ValueError on the table made of
\* an empty dictionary, which has no column.
OmaValueError == ~OmaKeyError /\ WormpepRows(data.oma_wormbase) = <<>>

_get_oma_wb_map == oma_to_wb(WormpepRows(data.oma_wormbase))

\* run.py's _get_raw_orthomcl: the pairs of the groups without duplicates.
_get_raw_orthomcl(rows) == drop_duplicates(read_csv(rows, NativeColumns("OrthoMCL")))

\* The four tables of Ensembl 56 joined one after the other, each join
\* keeping every row of the table before it, and the result indexed by ENSP:
\* an ENSP whose chain breaks has a row with a missing HS_ENSG.
_get_ensembl_56_ensp_ensg_map ==
    LET ensp_ensg_df == read_csv(data.translation_stable_id, <<"translation_id", "ENSP">>)
        translation_to_transcript ==
            read_csv(data.translation, <<"translation_id", "transcript_id">>)
        transcript_to_gene == read_csv(data.transcript, <<"transcript_id", "gene_id">>)
        gene_id_to_gene == read_csv(data.gene_stable_id, <<"gene_id", "HS_ENSG">>)
        joined ==
            LeftMerge(
                LeftMerge(
                    LeftMerge(ensp_ensg_df, translation_to_transcript, "translation_id",
                              {"translation_id", "transcript_id"}),
                    transcript_to_gene, "transcript_id", {"transcript_id", "gene_id"}),
                gene_id_to_gene, "gene_id", {"gene_id", "HS_ENSG"})
    IN  [i \in 1..Len(joined) |-> [idx |-> joined[i].ENSP, HS_ENSG |-> joined[i].HS_ENSG]]

\* The merge on the right table's index as a left merge: a row of left
\* without a row of right is kept.
RECURSIVE InnerMergeIndex_KeepUnmatched(_, _, _)
InnerMergeIndex_KeepUnmatched(left, right, on) ==
    IF left = <<>> THEN <<>>
    ELSE LET l == left[Len(left)]
             hits == SelectSeq(right, LAMBDA r : r.idx = l[on])
         IN  InnerMergeIndex_KeepUnmatched(SubSeq(left, 1, Len(left) - 1), right, on)
                \o (IF hits = <<>> THEN <<l @@ [HS_ENSG |-> NaN, CE_WB_OLD |-> NaN]>>
                    ELSE [i \in 1..Len(hits) |-> l @@ Without(hits[i], {"idx"})])

\* pd.merge(left, right, left_on=on, right_index=True): the rows of left that
\* have a row of right under their key, once per such row, under the labels
\* of left and in its order.
RECURSIVE InnerMergeIndex(_, _, _)
InnerMergeIndex(left, right, on) ==
    IF left = <<>> THEN <<>>
    ELSE LET l == left[Len(left)]
             hits == SelectSeq(right, LAMBDA r : r.idx = l[on])
         IN  InnerMergeIndex(SubSeq(left, 1, Len(left) - 1), right, on)
                \o [i \in 1..Len(hits) |-> l @@ Without(hits[i], {"idx"})]

_perform_worm_mapping(name, df) ==
    IF name = "OMA"
    THEN LET merged == InnerMergeIndex(df, _get_oma_wb_map, "CE_WORMPEP")
         IN  [i \in 1..Len(merged) |-> Without(merged[i], {"CE_WORMPEP"})]
    ELSE IF name = "OrthoMCL"
    THEN InnerMergeIndex(df, _get_ensembl_56_ensp_ensg_map, "HS_ENSP")
    ELSE IF name = "Ortholist" THEN df
    ELSE LeftMerge(df, WormMap(name), NativeColumns(name)[1],
                   {NativeColumns(name)[1], "CE_WB_OLD"})

_perform_human_mapping(name, df) ==
    IF name \in {"OMA", "OrthoMCL", "Ortholist"} THEN df
    ELSE LeftMerge(df, HumanMap(name), NativeColumns(name)[2],
                   {NativeColumns(name)[2], "HS_ENSG"})

\* The tail of run.py's get_* functions: resolution, sort, for Homologene and
\* OrthoInspector a new RangeIndex, and the choice of columns, which keeps the
\* native identifiers of the left-merge sources.
RunProcess(name, df) ==
    LET sorted == sort_values(ConcatFrames(df, get_ce_wb_updated(df)),
                              <<"CE_WB_CURRENT", "HS_ENSG">>)
        indexed == IF name \in {"Homologene", "OrthoInspector"} THEN RangeIndex(sorted)
                   ELSE sorted
    IN  Select(indexed,
               {"CE_WB_CURRENT", "HS_ENSG", "CE_WB_OLD", "CE_WB_COMMENT"}
                   \cup (IF name \in {"OMA", "OrthoMCL"} THEN {}
                         ELSE {NativeColumns(name)[1], NativeColumns(name)[2]}))

\* self.df = self._read_raw(**kwargs); run.py reads the pair file as it is,
\* and drops the duplicates of OrthoMCL's pairs.
ReadRaw ==
    /\ step = "start"
    /\ self_df' = IF impl = "class" THEN _read_raw(db_name, data.orthologs)
                  ELSE IF db_name = "OrthoMCL" THEN _get_raw_orthomcl(data.orthologs)
                  ELSE read_csv(data.orthologs, NativeColumns(db_name))
    /\ step' = "raw"
    /\ UNCHANGED <<runVars, impl, db_name, data, exc, resolverVars, expandVars, masterVars>>

\* self.df = self._perform_worm_mapping(); building OMA's table of ids may
\* raise, which ends the build.
WormMapping ==
    /\ step = "raw"
    /\ IF db_name = "OMA" /\ OmaKeyError
       THEN exc' = "KeyError" /\ step' = "raised" /\ UNCHANGED self_df
       ELSE IF db_name = "OMA" /\ OmaValueError
       THEN exc' = "ValueError" /\ step' = "raised" /\ UNCHANGED self_df
       ELSE /\ self_df' = _perform_worm_mapping(db_name, self_df)
            /\ step' = "worm"
            /\ UNCHANGED exc
    /\ UNCHANGED <<runVars, impl, db_name, data, resolverVars, expandVars, masterVars>>

\* self.df = self._perform_human_mapping()
HumanMapping ==
    /\ step = "worm"
    /\ self_df' = _perform_human_mapping(db_name, self_df)
    /\ step' = "human"
    /\ UNCHANGED <<runVars, impl, db_name, data, exc, resolverVars, expandVars, masterVars>>

\* self.df = self._process_wb_changes(self.df); in run.py the table is then
\* returned. Ortholist overrides _process_wb_changes(self) without the df
\* parameter, so the call with self.df raises TypeError.
ProcessWbChanges ==
    /\ step = "human"
    /\ IF db_name = "Ortholist"
       THEN exc' = "TypeError" /\ step' = "raised" /\ UNCHANGED self_df
       ELSE /\ self_df' = IF impl = "class" THEN _process_wb_changes(self_df)
                          ELSE RunProcess(db_name, self_df)
            /\ step' = IF impl = "class" THEN "processed" ELSE "done"
            /\ UNCHANGED exc
    /\ UNCHANGED <<runVars, impl, db_name, data, resolverVars, expandVars, masterVars>>

\* self.df = self.df.drop_duplicates()
DropDuplicates ==
    /\ step = "processed"
    /\ self_df' = drop_duplicates(self_df)
    /\ step' = "done"
    /\ UNCHANGED <<runVars, impl, db_name, data, exc, resolverVars, expandVars, masterVars>>

\* The files of a left-merge source's human side: no hit; one hit; two hits,
\* one of them in two of the tables.
HumanFiles(name) ==
    LET q == CHOOSE x \in HsNative(name) : TRUE
    IN  IF name = "Homologene"
        THEN {[human_map |-> <<>>, human_scraped |-> <<>>],
              [human_map |-> <<<<q, "H1">>>>, human_scraped |-> <<>>],
              [human_map |-> <<<<q, "H2">>, <<q, "H1">>>>, human_scraped |-> <<<<q, "H2">>>>]}
        ELSE {[human_map |-> <<>>, human_biomart |-> <<>>, human_scraped |-> <<>>],
              [human_map |-> <<<<q, "H1">>>>, human_biomart |-> <<>>, human_scraped |-> <<>>],
              [human_map |-> <<<<q, "H2">>>>, human_biomart |-> <<<<q, "H1">>, <<q, "H1">>>>,
               human_scraped |-> <<<<q, "H2">>>>]}

ScrapedFiles(name) ==
    LET p == CHOOSE x \in CeNative(name) : TRUE
    IN  {<<>>, <<<<p, "W0">>>>, <<<<p, "W2">>>>}

OmaWormbaseFiles ==
    {<<>>,
     <<<<"O1", <<"CE", 1>>>>>>,
     <<<<"O1", <<"CE", 1>>>>, <<"O2", <<"CE", 2>>>>>>,
     <<<<"O1", <<"CE", 1>>>>, <<"O2", <<"XX", 1>>>>>>}

\* The tables of Ensembl 56: none; a whole chain from E1 to H1; a chain that
\* breaks at the gene; the chains of E1 and E2.
EnsemblFiles ==
    {[translation_stable_id |-> <<>>, translation |-> <<>>, transcript |-> <<>>,
      gene_stable_id |-> <<>>],
     [translation_stable_id |-> <<<<"t1", "E1">>>>, translation |-> <<<<"t1", "x1">>>>,
      transcript |-> <<<<"x1", "g1">>>>, gene_stable_id |-> <<<<"g1", "H1">>>>],
     [translation_stable_id |-> <<<<"t1", "E1">>>>, translation |-> <<<<"t1", "x1">>>>,
      transcript |-> <<<<"x1", "g1">>>>, gene_stable_id |-> <<>>],
     [translation_stable_id |-> <<<<"t1", "E1">>, <<"t2", "E2">>>>,
      translation |-> <<<<"t1", "x1">>, <<"t2", "x2">>>>,
      transcript |-> <<<<"x1", "g1">>, <<"x2", "g2">>>>,
      gene_stable_id |-> <<<<"g1", "H1">>, <<"g2", "H2">>>>]}

SourceFiles(name) ==
    IF name = "OrthoMCL"
    THEN {[orthologs |-> o] @@ e :
            o \in SeqsUpTo({"W0", "W2"} \X {"E1", "E2"}, MaxPairs),
            e \in EnsemblFiles}
    ELSE IF name = "Ortholist"
    THEN {[orthologs |-> o] : o \in SeqsUpTo(OldIds \X ENSGIds, MaxPairs)}
    ELSE IF name = "OMA"
    THEN {[orthologs |-> o, wormpep |-> w, oma_wormbase |-> m] :
            o \in SeqsUpTo(CeNative(name) \X ENSGIds, MaxPairs),
            w \in SeqsUpTo(WormpepIds \X {"W0", "W2"}, MaxMapRows),
            m \in OmaWormbaseFiles}
    ELSE {[orthologs |-> o, worm_map |-> w, worm_scraped |-> s] @@ h :
            o \in SeqsUpTo(CeNative(name) \X HsNative(name), MaxPairs),
            w \in SeqsUpTo(CeNative(name) \X OldIds, MaxMapRows),
            s \in ScrapedFiles(name),
            h \in HumanFiles(name)}

InitSource ==
    /\ RunsIdle
    /\ WB_WS255 = {"W1", "W2"}
    /\ wb_changes_csv = <<<<"W0", "W1", "">>>>
    /\ WB_OLD_TO_CURRENT_MAP = LoadMap(wb_changes_csv)
    /\ call = NoCall
    /\ ExpandIdle
    /\ MasterIdle
    /\ impl \in {"class", "run"}
    /\ db_name \in DatabaseSources
    /\ db_name = "Ortholist" => impl = "class"
    /\ data \in SourceFiles(db_name)
    /\ self_df = <<>>
    /\ step = "start"
    /\ exc = "none"

NextSource == ReadRaw \/ WormMapping \/ HumanMapping \/ ProcessWbChanges \/ DropDuplicates

SpecSource == InitSource /\ [][NextSource]_vars

----------------------------------------------------------------------------
(* The contract of the resolver, stated on the files it was loaded from *)

\* A known deprecation: WB_changes.csv has a row for the identifier.
Deprecated(id) == \E i \in 1..Len(wb_changes_csv) : wb_changes_csv[i][1] = id

\* The row of WB_changes.csv that counts for an identifier: its last one.
ChangeRowOf(id) ==
    wb_changes_csv[CHOOSE i \in 1..Len(wb_changes_csv) :
        /\ wb_changes_csv[i][1] = id
        /\ \A j \in (i + 1)..Len(wb_changes_csv) : wb_changes_csv[j][1] # id]

HasSuccessor(id) == Deprecated(id) /\ ChangeRowOf(id)[2] # ""

\* C1: get_ce_wb_current returns the mapped successor when the identifier is
\* in the deprecation map with a live successor; otherwise the identifier
\* itself when it is in the canonical directory; otherwise null.
C1_ResolveCurrentContract ==
    call.fn = "get_ce_wb_current" =>
        call.ret = IF HasSuccessor(call.arg) THEN ChangeRowOf(call.arg)[2]
                   ELSE IF call.arg \in WB_WS255 THEN call.arg
                   ELSE None

\* C2: the value get_ce_wb_current returns is null or a member of the
\* canonical directory.
C2_ResolutionTotality ==
    call.fn = "get_ce_wb_current" => (call.ret = None \/ call.ret \in WB_WS255)

C4_ResolutionConsistency ==
    /\ (call.fn = "get_ce_wb_current" /\ call.arg \in WB_WS255 /\ ~Deprecated(call.arg))
            => call.ret = call.arg
    /\ (call.fn = "get_ce_wb_comment" /\ call.arg \in WB_WS255 /\ ~Deprecated(call.arg))
            => call.ret = None
    /\ call.fn = "get_ce_wb_updated" =>
            \A i \in 1..Len(call.arg) :
                (call.arg[i].CE_WB_OLD \in WB_WS255 /\ ~Deprecated(call.arg[i].CE_WB_OLD))
                    => /\ call.ret[i].CE_WB_CURRENT = call.arg[i].CE_WB_OLD
                       /\ call.ret[i].CE_WB_COMMENT = None

\* C4 witness: a table with a never deprecated directory identifier next to
\* a deprecated one has been resolved.
C4_Witness ==
    /\ call.fn = "get_ce_wb_updated"
    /\ Len(call.arg) = 2
    /\ call.arg[1].CE_WB_OLD \in WB_WS255 /\ ~Deprecated(call.arg[1].CE_WB_OLD)
    /\ Deprecated(call.arg[2].CE_WB_OLD)
    /\ call.ret[1].CE_WB_COMMENT = None

C6_BatchPreservesRows ==
    call.fn = "get_ce_wb_updated" =>
        LET df == call.arg
            new == call.ret
            attached == ConcatFrames(df, new)
        IN  /\ Len(new) = Len(df)
            /\ \A i \in 1..Len(df) :
                /\ new[i].idx = df[i].idx
                /\ new[i].CE_WB_CURRENT = get_ce_wb_current(df[i].CE_WB_OLD)
                /\ new[i].CE_WB_COMMENT = get_ce_wb_comment(df[i].CE_WB_OLD)
            /\ Len(attached) = Len(df)
            /\ \A i \in 1..Len(df) :
                /\ attached[i].HS_ENSG = df[i].HS_ENSG
                /\ attached[i].CE_WB_OLD = df[i].CE_WB_OLD
                /\ attached[i].CE_WB_CURRENT = get_ce_wb_current(df[i].CE_WB_OLD)
                /\ attached[i].CE_WB_COMMENT = get_ce_wb_comment(df[i].CE_WB_OLD)

\* C6 witness: a table that repeats an identifier, under a repeated index
\* label, has been resolved.
C6_Witness ==
    /\ call.fn = "get_ce_wb_updated"
    /\ Len(call.arg) = 2
    /\ call.arg[1].CE_WB_OLD = call.arg[2].CE_WB_OLD
    /\ call.arg[1].HS_ENSG # call.arg[2].HS_ENSG
    /\ call.arg[1].idx = call.arg[2].idx
    /\ Len(call.ret) = 2

----------------------------------------------------------------------------
(* Group expansion, stated on the rows of the raw file *)

SideOf(row) ==
    IF source = "Homologene" THEN HomologeneSide(row.kind) ELSE InParanoidSide(row.kind)

\* A group of a streamed file: a maximal run of rows with one group id,
\* named by the position of its first row.
RunStarts == {i \in 1..Len(reader) : i = 1 \/ reader[i].group_id # reader[i - 1].group_id}
RunEnd(i) ==
    CHOOSE j \in i..Len(reader) :
        /\ \A k \in i..j : reader[k].group_id = reader[i].group_id
        /\ j = Len(reader) \/ reader[j + 1].group_id # reader[i].group_id

RunMembers(i, side) == {reader[k].gene_info : k \in {m \in i..RunEnd(i) : SideOf(reader[m]) = side}}
RunRecords(i, side) == Cardinality({k \in i..RunEnd(i) : SideOf(reader[k]) = side})

\* The pairs of a group counted per member record, and per distinct member.
RunRecordPairs(i) == RunRecords(i, "cele") * RunRecords(i, "hsap")
RunSetPairs(i) == Cardinality(RunMembers(i, "cele")) * Cardinality(RunMembers(i, "hsap"))

RECURSIVE SumRecordPairs(_)
SumRecordPairs(S) ==
    IF S = {} THEN 0
    ELSE LET i == CHOOSE x \in S : TRUE IN RunRecordPairs(i) + SumRecordPairs(S \ {i})

RECURSIVE SumSetPairs(_)
SumSetPairs(S) ==
    IF S = {} THEN 0
    ELSE LET i == CHOOSE x \in S : TRUE IN RunSetPairs(i) + SumSetPairs(S \ {i})

Earlier(i) == {j \in RunStarts : j < i}

\* A group of the OrthoMCL file: all the rows with one group id; the groups
\* are expanded in the order of their first rows.
KeyStarts ==
    {i \in 1..Len(reader) : \A j \in 1..(i - 1) : reader[j].group_id # reader[i].group_id}
KeyCele(i) ==
    {reader[k].source_id : k \in {m \in 1..Len(reader) :
        reader[m].group_id = reader[i].group_id /\ reader[m].source_id[1] = "WBGene"}}
KeyHsap(i) ==
    {reader[k].source_id : k \in {m \in 1..Len(reader) :
        reader[m].group_id = reader[i].group_id /\ reader[m].source_id[1] # "WBGene"}}
KeyPairs(i) == Cardinality(KeyCele(i)) * Cardinality(KeyHsap(i))

RECURSIVE SumKeyPairs(_)
SumKeyPairs(S) ==
    IF S = {} THEN 0
    ELSE LET i == CHOOSE x \in S : TRUE IN KeyPairs(i) + SumKeyPairs(S \ {i})

Streamed == source \in {"Homologene", "InParanoid"}

\* C7 as stated: every group is expanded into |members_side_a| * |members_side_b|
\* pairs, the sizes being those of the membership sets (0 when a side is
\* empty), and the pairs are the cartesian product of the two sets; for the
\* streaming expanders and for the dictionary-based one.
C7_ExpansionCardinality ==
    /\ (Streamed /\ pc = "done") =>
        /\ Len(ortholog_list) = SumSetPairs(RunStarts)
        /\ \A i \in RunStarts :
            LET off == SumSetPairs(Earlier(i))
            IN  Range(SubSeq(ortholog_list, off + 1, off + RunSetPairs(i)))
                    = RunMembers(i, "cele") \X RunMembers(i, "hsap")
    /\ (source = "OrthoMCL" /\ pc = "done") =>
        /\ Len(ortholog_list) = SumKeyPairs(KeyStarts)
        /\ \A i \in KeyStarts :
            LET off == SumKeyPairs({j \in KeyStarts : j < i})
            IN  Range(SubSeq(ortholog_list, off + 1, off + KeyPairs(i)))
                    = KeyCele(i) \X KeyHsap(i)

\* C7 amended: in the streaming expanders a group is expanded into (member
\* records of side a) * (member records of side b) pairs, a member listed
\* twice counting twice; in OrthoMCL into |set a| * |set b| pairs; in both
\* the pairs of a group, as a set, are the cartesian product of its two
\* membership sets, and a group with an empty side gives no pair.
C7_ExpansionPerRecord ==
    /\ (Streamed /\ pc = "done") =>
        /\ Len(ortholog_list) = SumRecordPairs(RunStarts)
        /\ \A i \in RunStarts :
            LET off == SumRecordPairs(Earlier(i))
            IN  Range(SubSeq(ortholog_list, off + 1, off + RunRecordPairs(i)))
                    = RunMembers(i, "cele") \X RunMembers(i, "hsap")
    /\ (source = "OrthoMCL" /\ pc = "done") =>
        /\ Len(ortholog_list) = SumKeyPairs(KeyStarts)
        /\ \A i \in KeyStarts :
            LET off == SumKeyPairs({j \in KeyStarts : j < i})
            IN  Range(SubSeq(ortholog_list, off + 1, off + KeyPairs(i)))
                    = KeyCele(i) \X KeyHsap(i)

\* C7 witness: a streamed file with a group that lists a member twice and
\* has both sides, and a group with an empty side, has been expanded.
C7_Witness ==
    /\ source = "Homologene"
    /\ pc = "done"
    /\ \E i \in RunStarts : RunRecordPairs(i) > RunSetPairs(i) /\ RunSetPairs(i) > 0
    /\ \E i \in RunStarts : RunRecords(i, "cele") > 0 /\ RunRecords(i, "hsap") = 0
    /\ Len(ortholog_list) >= 2

----------------------------------------------------------------------------
(* The master table, stated on the per-source tables *)

\* The sources whose table holds a row with the two identifiers.
SourcesOf(a, b) ==
    {DATABASES[i].name : i \in {k \in 1..Len(DATABASES) :
        \E r \in 1..Len(DATABASES[k].db) :
            /\ DATABASES[k].db[r].CE_WB_CURRENT = a
            /\ DATABASES[k].db[r].HS_ENSG = b}}

RecordsOf(a, b) ==
    {i \in 1..Len(master_df) : master_df[i].CE_WB_CURRENT = a /\ master_df[i].HS_ENSG = b}

Consolidated == stage \in {"tuples", "wormbase", "ensembl"}

\* C8: after consolidation the record of a pair (a, b) lists exactly the
\* sources whose table holds a row with CE_WB_CURRENT = a and HS_ENSG = b,
\* both non-null; the pair has a record iff that set is non-empty; the score
\* is the size of the set.
C8_SourceSetExact ==
    Consolidated =>
        /\ \A a \in WBIds, b \in ENSGIds :
            /\ (RecordsOf(a, b) # {}) <=> (SourcesOf(a, b) # {})
            /\ \A i \in RecordsOf(a, b) :
                /\ Range(master_df[i].Databases) = SourcesOf(a, b)
                /\ master_df[i].Score = Cardinality(SourcesOf(a, b))
        /\ \A i \in 1..Len(master_df) :
            /\ master_df[i].CE_WB_CURRENT \in WBIds
            /\ master_df[i].HS_ENSG \in ENSGIds

\* C8 witness: a pair held by both sources, a pair held by one, and a row
\* with a null identifier have been consolidated.
C8_Witness ==
    /\ stage = "tuples"
    /\ \E i \in 1..Len(master_df) : master_df[i].Score = 2
    /\ \E i \in 1..Len(master_df) : master_df[i].Databases = <<"ORTHOMCL">>
    /\ \E r \in 1..Len(DATABASES[2].db) : DATABASES[2].db[r].CE_WB_CURRENT = None

\* C9: the master table never holds two records with the same
\* (CE_WB_CURRENT, HS_ENSG) key, whatever annotation tables are joined onto it.
C9_PairUniqueness ==
    \A i, j \in 1..Len(master_df) :
        (/\ master_df[i].CE_WB_CURRENT = master_df[j].CE_WB_CURRENT
         /\ master_df[i].HS_ENSG = master_df[j].HS_ENSG) => i = j

\* C10: in every state of the fold every pair's source set is non-empty and
\* holds at most the N sources of the run; in the master table every score
\* is the size of the record's source set and lies in 1..N.
C10_ScoreBound ==
    /\ \A i \in 1..Len(all_pairs) :
        /\ all_pairs[i].names # {}
        /\ all_pairs[i].names \subseteq Range(DatabaseNames)
        /\ Cardinality(all_pairs[i].names) \in 1..Len(DatabaseNames)
    /\ Consolidated =>
        \A i \in 1..Len(master_df) :
            /\ master_df[i].Databases # <<>>
            /\ master_df[i].Score = Cardinality(Range(master_df[i].Databases))
            /\ master_df[i].Score = Len(master_df[i].Databases)
            /\ master_df[i].Score \in 1..Len(DatabaseNames)

\* C10 witness: the master table holds a record of score 1 and one of score
\* N, one of them joined with two WormBase rows.
C10_Witness ==
    /\ stage = "ensembl"
    /\ \E i \in 1..Len(master_df) : master_df[i].Score = 1
    /\ \E i \in 1..Len(master_df) : master_df[i].Score = Len(DatabaseNames)
    /\ Len(master_df) > Len(all_pairs)

\* The null of a column: the resolver's None for CE_WB_CURRENT, the merge's
\* NaN for HS_ENSG.
NullSideRows(k) ==
    {r \in 1..Len(DATABASES[k].db) :
        IsNull(DATABASES[k].db[r].CE_WB_CURRENT) \/ IsNull(DATABASES[k].db[r].HS_ENSG)}

\* C11: a per-source row with a null CE_WB_CURRENT or HS_ENSG never gives
\* all_pairs or the master table a key or a source name: every key has two
\* non-null identifiers and every name of a key comes from a table that holds
\* a row with both; and no step of the consolidation changes a per-source
\* table, so the rows with a null side are still in it afterwards.
C11_NullRowsExcluded ==
    /\ [](/\ \A i \in 1..Len(all_pairs) :
                /\ all_pairs[i].key[1] \in WBIds
                /\ all_pairs[i].key[2] \in ENSGIds
                /\ all_pairs[i].names \subseteq SourcesOf(all_pairs[i].key[1], all_pairs[i].key[2])
          /\ \A i \in 1..Len(master_df) :
                /\ master_df[i].CE_WB_CURRENT \in WBIds
                /\ master_df[i].HS_ENSG \in ENSGIds)
    /\ [][DATABASES' = DATABASES]_vars

\* C11 witness: the tables of a finished consolidation hold a row with a
\* null CE_WB_CURRENT, a row with a null HS_ENSG and a row with both.
C11_Witness ==
    /\ stage = "serialized"
    /\ \E r \in NullSideRows(1) : DATABASES[1].db[r].CE_WB_CURRENT = None
    /\ \E r \in NullSideRows(2) : DATABASES[2].db[r].HS_ENSG = NaN
    /\ Len(DATABASES[1].db) > Cardinality(NullSideRows(1))
    /\ Len(master_df) >= 1

\* C12: the records of the master table are in ascending order of their key
\* (CE_WB_CURRENT, HS_ENSG), whatever the order of the sources and of the
\* first encounter of a pair.
C12_SortedByKey ==
    \A i, j \in 1..Len(master_df) :
        i < j => ~RowBefore(master_df[j], master_df[i], <<"CE_WB_CURRENT", "HS_ENSG">>)

\* C13: the serialized output does not depend on the order in which a set
\* is iterated: whatever order list(x) gives the members of a record's
\* Databases, SMART or GO, the string written for the record is the same.
C13_Deterministic ==
    stage = "serialized" =>
        \A i \in 1..Len(master_df) :
            /\ \A o \in Orders(Range(master_df[i].Databases.parts)) :
                    Sorted(Range(o)) = master_df[i].Databases.parts
            /\ IsSet(master_df[i], "SMART") =>
                    \A o \in Orders(Range(master_df[i].SMART.parts)) :
                        Sorted(Range(o)) = master_df[i].SMART.parts
            /\ IsSet(master_df[i], "GO") =>
                    \A o \in Orders(Range(master_df[i].GO.parts)) :
                        SortedLower(o) = master_df[i].GO.parts

----------------------------------------------------------------------------
(* The per-source tables, stated on the files of the source *)

\* The table of raw pairs the build starts from.
RawTable ==
    IF impl = "class" THEN _read_raw(db_name, data.orthologs)
    ELSE IF db_name = "OrthoMCL" THEN _get_raw_orthomcl(data.orthologs)
    ELSE read_csv(data.orthologs, NativeColumns(db_name))

\* The rows of the worm crosswalk under a native identifier.
WormHitRows(id) ==
    IF db_name = "OMA"
    THEN {k \in 1..Len(_get_oma_wb_map) : _get_oma_wb_map[k].idx = id}
    ELSE {k \in 1..Len(WormMap(db_name)) : WormMap(db_name)[k][NativeColumns(db_name)[1]] = id}

WormHit(k) == IF db_name = "OMA" THEN _get_oma_wb_map[k].CE_WB_OLD
              ELSE WormMap(db_name)[k].CE_WB_OLD

\* The human identifiers a raw record ends with: those of the crosswalk, or
\* a missing value when it has none; OMA's records hold them already.
HumanValues(row) ==
    IF db_name = "OMA" THEN {row.HS_ENSG}
    ELSE LET hits == {HumanMap(db_name)[k].HS_ENSG :
                        k \in {m \in 1..Len(HumanMap(db_name)) :
                            HumanMap(db_name)[m][NativeColumns(db_name)[2]]
                                = row[NativeColumns(db_name)[2]]}}
         IN  IF hits = {} THEN {NaN} ELSE hits

\* Row i of the table after the worm mapping comes from raw record r; OMA's
\* merge keeps the label of the raw record, the left merges keep its columns.
FromRaw(i, r) ==
    IF db_name = "OMA" THEN self_df[i].idx = RawTable[r].idx
    ELSE /\ self_df[i][NativeColumns(db_name)[1]] = RawTable[r][NativeColumns(db_name)[1]]
         /\ self_df[i][NativeColumns(db_name)[2]] = RawTable[r][NativeColumns(db_name)[2]]

\* The raw records equal to record r.
SameRaw(r) == {q \in 1..Len(RawTable) : SameRow(RawTable[q], RawTable[r])}

ZeroHit(r) == WormHitRows(RawTable[r][NativeColumns(db_name)[1]]) = {}

\* The four columns of the canonical table.
Canonical(row) ==
    [c \in {"CE_WB_CURRENT", "HS_ENSG", "CE_WB_OLD", "CE_WB_COMMENT"} |-> row[c]]

\* Row r may stand before row s in a table sorted by (CE_WB_CURRENT, HS_ENSG)
\* with the null CE_WB_CURRENT last.
KeyOrdered(r, s) ==
    \/ ~IsNull(r.CE_WB_CURRENT) /\ IsNull(s.CE_WB_CURRENT)
    \/ /\ ~IsNull(r.CE_WB_CURRENT) /\ ~IsNull(s.CE_WB_CURRENT)
       /\ StrRank(r.CE_WB_CURRENT) < StrRank(s.CE_WB_CURRENT)
    \/ /\ \/ IsNull(r.CE_WB_CURRENT) /\ IsNull(s.CE_WB_CURRENT)
          \/ ~IsNull(r.CE_WB_CURRENT) /\ r.CE_WB_CURRENT = s.CE_WB_CURRENT
       /\ \/ IsNull(s.HS_ENSG)
          \/ ~IsNull(r.HS_ENSG) /\ StrRank(r.HS_ENSG) <= StrRank(s.HS_ENSG)

\* C14: the table a Database source returns is sorted by (CE_WB_CURRENT,
\* HS_ENSG) ascending, the rows with a null CE_WB_CURRENT after all the
\* others, before and after the final drop_duplicates.
C14_SortedNullsLast ==
    (impl = "class" /\ step \in {"processed", "done"}) =>
        \A i, j \in 1..Len(self_df) : i < j => KeyOrdered(self_df[i], self_df[j])

\* C14 witness: a returned table with two current identifiers and a null
\* one, built from a crosswalk that holds one row twice.
C14_Witness ==
    /\ impl = "class"
    /\ step = "done"
    /\ \E i, j, k \in 1..Len(self_df) :
        /\ self_df[i].CE_WB_CURRENT = "W1"
        /\ self_df[j].CE_WB_CURRENT = "W2"
        /\ self_df[k].CE_WB_CURRENT = None
    /\ db_name = "Homologene"
    /\ Len(data.worm_scraped) = 1
    /\ data.worm_scraped[1] \in Range(data.worm_map)
    /\ \E r \in 1..Len(RawTable) : RawTable[r].CE_ENTREZ = data.worm_scraped[1][1]

\* C15: the canonical table of a source holds no two rows with the same
\* CE_WB_CURRENT, HS_ENSG, CE_WB_OLD and CE_WB_COMMENT, for the class-based
\* sources and for the tables run.py builds.
C15_NoIdenticalRows ==
    step = "done" =>
        \A i, j \in 1..Len(self_df) :
            SameRow(Canonical(self_df[i]), Canonical(self_df[j])) => i = j

\* C16 as stated: in every source with a worm crosswalk a raw record whose
\* identifier has no row in the crosswalk gives no row, and no row with a
\* missing CE_WB_OLD is ever handed to the resolver.
C16_ZeroHitsDropped ==
    /\ (step = "worm" /\ db_name \in SourceNames) =>
        \A r \in 1..Len(RawTable) :
            ZeroHit(r) => ~\E i \in 1..Len(self_df) : FromRaw(i, r)
    /\ (step \in {"worm", "human", "processed", "done"} /\ db_name \in SourceNames) =>
        \A i \in 1..Len(self_df) : ~IsNull(self_df[i].CE_WB_OLD)

\* C16 amended: in OMA, whose crosswalk is joined by an inner merge, a raw
\* record whose identifier has no row in the crosswalk gives no row and is
\* never resolved; in Homologene, InParanoid and OrthoInspector, whose
\* crosswalk is joined by a left merge, it is kept with a missing CE_WB_OLD,
\* and resolution gives it a null CE_WB_CURRENT and the comment
\* "Not mapped, not in WS255".
C16_ZeroHitsBySource ==
    /\ db_name = "OMA" =>
        /\ step = "worm" =>
            \A r \in 1..Len(RawTable) :
                ZeroHit(r) => ~\E i \in 1..Len(self_df) : FromRaw(i, r)
        /\ step \in {"worm", "human", "processed", "done"} =>
            \A i \in 1..Len(self_df) : ~IsNull(self_df[i].CE_WB_OLD)
    /\ db_name \in LeftMergeSources =>
        /\ step = "worm" =>
            \A r \in 1..Len(RawTable) :
                ZeroHit(r) =>
                    /\ Cardinality({i \in 1..Len(self_df) : FromRaw(i, r)})
                            = Cardinality(SameRaw(r))
                    /\ \A i \in 1..Len(self_df) :
                            FromRaw(i, r) => self_df[i].CE_WB_OLD = NaN
        /\ step = "done" =>
            /\ (\E r \in 1..Len(RawTable) : ZeroHit(r)) =>
                    \E i \in 1..Len(self_df) : self_df[i].CE_WB_OLD = NaN
            /\ \A i \in 1..Len(self_df) :
                    self_df[i].CE_WB_OLD = NaN =>
                        /\ self_df[i].CE_WB_CURRENT = None
                        /\ self_df[i].CE_WB_COMMENT = "Not mapped, not in WS255"

\* C16 witness: Homologene's table has been built from a record without a
\* crosswalk row and a record with one.
C16_Witness ==
    /\ db_name = "Homologene"
    /\ step = "done"
    /\ \E r \in 1..Len(RawTable) : ZeroHit(r)
    /\ \E r \in 1..Len(RawTable) : ~ZeroHit(r)
    /\ \E i \in 1..Len(self_df) : self_df[i].CE_WB_OLD = NaN
    /\ \E i \in 1..Len(self_df) : self_df[i].CE_WB_OLD # NaN

\* C17: a raw record whose identifier has k >= 1 rows in the crosswalk gives
\* one row per crosswalk row before resolution, each with the record's
\* other-side identifier, and the returned table holds a row for every
\* combination of a crosswalk hit and a human identifier of the record; OMA's
\* crosswalk is keyed by the identifier and gives the one row of its hit.
C17_FanOut ==
    /\ (db_name = "OMA" /\ step = "worm") =>
        \A r \in 1..Len(RawTable) :
            \A k \in WormHitRows(RawTable[r].CE_WORMPEP) :
                /\ Cardinality({i \in 1..Len(self_df) : FromRaw(i, r)}) = 1
                /\ \A i \in 1..Len(self_df) :
                        FromRaw(i, r) => /\ self_df[i].CE_WB_OLD = WormHit(k)
                                         /\ self_df[i].HS_ENSG = RawTable[r].HS_ENSG
    /\ db_name \in LeftMergeSources =>
        /\ step = "worm" =>
            \A r \in 1..Len(RawTable) :
                LET hits == WormHitRows(RawTable[r][NativeColumns(db_name)[1]])
                IN  hits # {} =>
                    /\ Cardinality({i \in 1..Len(self_df) : FromRaw(i, r)})
                            = Cardinality(SameRaw(r)) * Cardinality(hits)
                    /\ \A k \in hits :
                            Cardinality({i \in 1..Len(self_df) :
                                    FromRaw(i, r) /\ self_df[i].CE_WB_OLD = WormHit(k)})
                                = Cardinality(SameRaw(r))
                                    * Cardinality({m \in hits : WormHit(m) = WormHit(k)})
        /\ step = "done" =>
            \A r \in 1..Len(RawTable) :
                \A k \in WormHitRows(RawTable[r][NativeColumns(db_name)[1]]) :
                    \A g \in HumanValues(RawTable[r]) :
                        \E i \in 1..Len(self_df) :
                            /\ self_df[i].CE_WB_OLD = WormHit(k)
                            /\ KeyMatch(self_df[i].HS_ENSG, g)

\* C17 witness: InParanoid's table has been built from a record with two
\* worm hits and two human hits, and holds the four combinations.
C17_Witness ==
    /\ db_name = "InParanoid"
    /\ impl = "class"
    /\ step = "done"
    /\ \E r \in 1..Len(RawTable) :
        /\ Cardinality({WormHit(k) : k \in WormHitRows(RawTable[r].CE_UNIPROT)}) = 2
        /\ Cardinality(HumanValues(RawTable[r])) = 2
    /\ Len(self_df) >= 4

\* The group a row of the raw pair table comes from: the label of the row
\* is the place of its pair in ortholog_list.
PairRun(n) ==
    CHOOSE i \in RunStarts :
        /\ SumRecordPairs(Earlier(i)) < n
        /\ n <= SumRecordPairs(Earlier(i)) + RunRecordPairs(i)
PairKey(n) ==
    CHOOSE i \in KeyStarts :
        /\ SumKeyPairs({j \in KeyStarts : j < i}) < n
        /\ n <= SumKeyPairs({j \in KeyStarts : j < i}) + KeyPairs(i)

\* C18: the table of raw pairs a group-shaped reader hands on never holds
\* the same pair twice from one group, for the class-based readers and for
\* run.py's.
C18_NoRepeatedPair ==
    /\ (Streamed /\ pc = "read") =>
        \A i, j \in 1..Len(raw_df) :
            (/\ i # j
             /\ raw_df[i][NativeColumns(source)[1]] = raw_df[j][NativeColumns(source)[1]]
             /\ raw_df[i][NativeColumns(source)[2]] = raw_df[j][NativeColumns(source)[2]])
                => PairRun(raw_df[i].idx + 1) # PairRun(raw_df[j].idx + 1)
    /\ (source = "OrthoMCL" /\ pc = "done") =>
        \A i, j \in 1..Len(raw_df) :
            (/\ i # j
             /\ raw_df[i].CE_WB_OLD = raw_df[j].CE_WB_OLD
             /\ raw_df[i].HS_ENSP = raw_df[j].HS_ENSP)
                => PairKey(raw_df[i].idx + 1) # PairKey(raw_df[j].idx + 1)

\* C19: building a source's table never raises, whatever its crosswalk
\* tables lack, and a row whose identifier the crosswalk lacks has a null
\* CE_WB_CURRENT.
C19_MissingCrosswalkNoError ==
    /\ exc = "none"
    /\ step # "raised"
    /\ (step = "done" /\ db_name \in LeftMergeSources) =>
        \A i \in 1..Len(self_df) :
            IsNull(self_df[i].CE_WB_OLD) => IsNull(self_df[i].CE_WB_CURRENT)

\* C20: every entry of the deprecation map as loaded has a current
\* identifier and no reason, or no current identifier and a reason.
C20_DeprecationInvariant ==
    \A old \in DOMAIN WB_OLD_TO_CURRENT_MAP :
        LET current == WB_OLD_TO_CURRENT_MAP[old][1]
            comment == WB_OLD_TO_CURRENT_MAP[old][2]
        IN  /\ current # None => comment = None
            /\ current = None => (comment # None /\ comment # "")

----------------------------------------------------------------------------
(* The resolver's structures over a run *)

\* C26: the canonical directory and the deprecation map are what the import
\* loaded, and no call of get_ce_wb_current, get_ce_wb_comment or
\* get_ce_wb_updated changes them, whatever its argument: the answers for an
\* identifier are the same before and after every step.
C26_ResolverFrame ==
    /\ [](WB_OLD_TO_CURRENT_MAP = LoadMap(wb_changes_csv))
    /\ [][/\ WB_WS255' = WB_WS255
          /\ WB_OLD_TO_CURRENT_MAP' = WB_OLD_TO_CURRENT_MAP
          /\ \A id \in InputIds :
                /\ get_ce_wb_current(id)' = get_ce_wb_current(id)
                /\ get_ce_wb_comment(id)' = get_ce_wb_comment(id)]_vars

\* C26 witness: a call on an identifier absent from both structures, which
\* are not empty, has returned its answer.
C26_Witness ==
    /\ call.fn = "get_ce_wb_current"
    /\ call.arg \notin DOMAIN WB_OLD_TO_CURRENT_MAP
    /\ call.arg \notin WB_WS255
    /\ call.ret = None
    /\ WB_WS255 # {}
    /\ DOMAIN WB_OLD_TO_CURRENT_MAP # {}

----------------------------------------------------------------------------
(* The expanders over a file, stated on its rows *)

\* The rows of every group id are next to one another.
Contiguous(rows) ==
    \A i, k \in 1..Len(rows) :
        (i < k /\ rows[i].group_id = rows[k].group_id)
            => \A j \in i..k : rows[j].group_id = rows[i].group_id

\* The group that row p of a streamed file belongs to, and the members of a
\* side listed in rows s..p, in their order.
CurrentStart(p) == CHOOSE s \in RunStarts : s <= p /\ p <= RunEnd(s)
RunPrefix(s, p, side) ==
    LET sel == SelectSeq(SubSeq(reader, s, p), LAMBDA r : SideOf(r) = side)
    IN  [i \in 1..Len(sel) |-> sel[i].gene_info]

\* The pairs of the groups in S are in ortholog_list, once per pair of member
\* records, each group in its own slice.
ExpandedOnce(S) ==
    /\ Len(ortholog_list) = SumRecordPairs(S)
    /\ \A i \in S :
        LET off == SumRecordPairs(Earlier(i))
        IN  Range(SubSeq(ortholog_list, off + 1, off + RunRecordPairs(i)))
                = RunMembers(i, "cele") \X RunMembers(i, "hsap")

\* C23: in a streaming expander reading records ordered by group key, after
\* every record the accumulated group holds the members of the record's
\* group read so far and nothing else, the groups before it have been
\* expanded exactly once and no other, and after the end of input every
\* group has been expanded exactly once.
C23_FlushOnBoundary ==
    (Streamed /\ Contiguous(reader)) =>
        /\ (pc = "rows" /\ pos = 0) => (current_group = NoGroup /\ ortholog_list = <<>>)
        /\ (pc = "rows" /\ pos >= 1) =>
            LET s == CurrentStart(pos)
            IN  /\ current_group.group_id = reader[pos].group_id
                /\ current_group.cele = RunPrefix(s, pos, "cele")
                /\ current_group.hsap = RunPrefix(s, pos, "hsap")
                /\ ExpandedOnce(Earlier(s))
        /\ pc \in {"done", "read"} => ExpandedOnce(RunStarts)

\* C23 witness: a file of two groups with members on both sides, ordered by
\* group key, has been expanded to the end.
C23_Witness ==
    /\ Streamed
    /\ Contiguous(reader)
    /\ pc = "done"
    /\ Cardinality(RunStarts) = 2
    /\ \A i \in RunStarts : RunRecordPairs(i) >= 1
    /\ Len(ortholog_list) >= 2

\* The groups whose members are held: the accumulated group of a streaming
\* expander and the entries of OrthoMCL's dictionary.
LiveGroups ==
    (IF Len(current_group.cele) + Len(current_group.hsap) > 0 THEN 1 ELSE 0)
        + Cardinality({k \in 1..Len(groups) : groups[k].cele \cup groups[k].hsap # {}})

\* C27 as stated: at every point of the expansion of Homologene, InParanoid
\* and OrthoMCL the members of at most one group are held.
C27_OneGroupLive == LiveGroups <= 1

\* C27 amended: in the streaming expanders (Homologene, InParanoid) the
\* members of at most one group are held at every point, and the members
\* held are members of the group of the last record read; OrthoMCL's
\* expander holds the membership sets of every group it has read until the
\* whole file has been read and expanded.
C27_OneGroupLiveStreaming ==
    /\ Streamed =>
        /\ LiveGroups <= 1
        /\ (pc = "rows" /\ pos >= 1) =>
            /\ Range(current_group.cele) \subseteq RunMembers(CurrentStart(pos), "cele")
            /\ Range(current_group.hsap) \subseteq RunMembers(CurrentStart(pos), "hsap")
    /\ (source = "OrthoMCL" /\ pc \in {"rows", "expand", "done"}) =>
        LET read == IF pc = "rows" THEN pos ELSE Len(reader)
        IN  /\ {groups[k].group_id : k \in 1..Len(groups)}
                    = {reader[i].group_id : i \in 1..read}
            /\ \A k \in 1..Len(groups) :
                    groups[k].cele \cup groups[k].hsap
                        = {reader[i].source_id :
                                i \in {j \in 1..read : reader[j].group_id = groups[k].group_id}}

\* C27 witness: a streaming expander holds the members of the second group
\* of its file after it expanded the first.
C27_Witness ==
    /\ Streamed
    /\ pc = "rows"
    /\ pos >= 3
    /\ Len(ortholog_list) >= 1
    /\ Len(current_group.cele) + Len(current_group.hsap) >= 1
    /\ reader[1].group_id # reader[pos].group_id

\* The rows of a file as records of a streaming expander, and as rows of
\* OrthoMCL's file (a row of neither species belongs to no side).
AsStreamRecords(rows) ==
    [i \in 1..Len(rows) |->
        IF source = "OrthoMCL"
        THEN [group_id |-> rows[i].group_id,
              side |-> IF startswith(rows[i].source_id, "WBGene") THEN "cele" ELSE "hsap",
              gene_info |-> rows[i].source_id]
        ELSE [group_id |-> rows[i].group_id, side |-> SideOf(rows[i]),
              gene_info |-> rows[i].gene_info]]
AsOrthoMCLRows(rows) ==
    LET sided == SelectSeq(rows, LAMBDA r : SideOf(r) # "none")
    IN  [i \in 1..Len(sided) |->
            [group_id |-> sided[i].group_id,
             source_id |-> <<IF SideOf(sided[i]) = "cele" THEN "WBGene" ELSE "ENSP",
                             sided[i].gene_info>>]]

\* C28: on a file in which the records of every group key are contiguous,
\* the streaming expander and the dictionary-based expander produce the same
\* set of pairs.
C28_ExpandersAgree ==
    /\ (Streamed /\ pc = "done" /\ Contiguous(reader)) =>
        Range(ortholog_list)
            = {<<p[1][2], p[2][2]>> : p \in DictPairs(AsOrthoMCLRows(reader))}
    /\ (source = "OrthoMCL" /\ pc = "done" /\ Contiguous(reader)) =>
        Range(ortholog_list) = Range(StreamPairs(AsStreamRecords(reader), None))

\* C28 witness: OrthoMCL's expander has expanded a file in which two groups
\* with members on both sides are contiguous.
C28_Witness ==
    /\ source = "OrthoMCL"
    /\ pc = "done"
    /\ Contiguous(reader)
    /\ Cardinality(KeyStarts) = 2
    /\ \A i \in KeyStarts : KeyPairs(i) >= 1

\* A file in which a group key comes back after another key, on which the
\* two expanders differ.
C28_MayDiffer ==
    /\ Streamed
    /\ pc = "done"
    /\ ~Contiguous(reader)
    /\ Range(ortholog_list)
            # {<<p[1][2], p[2][2]>> : p \in DictPairs(AsOrthoMCLRows(reader))}

----------------------------------------------------------------------------
(* The consolidation, stated on the per-source tables *)

\* The allow-list of side-B identifiers handed to the consolidation.
AllowList == {"H1"}

\* C22: with an allow-list supplied, the consolidated table holds exactly
\* the consolidated pairs whose HS_ENSG is in the allow-list, each with its
\* source set and score; a pair whose HS_ENSG is not in it is absent.
C22_AllowListFilter ==
    stage \in {"tuples", "wormbase", "ensembl", "serialized"} =>
        /\ \A i \in 1..Len(master_df) : master_df[i].HS_ENSG \in AllowList
        /\ \A a \in WBIds, b \in AllowList :
                (SourcesOf(a, b) # {}) =>
                    \E i \in RecordsOf(a, b) :
                        master_df[i].Score = Cardinality(SourcesOf(a, b))

\* The orders of a list, and the lists of tables that hold the rows of
\* DATABASES, the tables and the rows of each table in any order.
Reorderings(seq) ==
    {[i \in 1..Len(seq) |-> seq[f[i]]] : f \in Orders(1..Len(seq))}
Reordered ==
    UNION {{[i \in 1..Len(p) |-> [name |-> p[i].name, db |-> q[i]]] :
                q \in {t \in [1..Len(p) -> UNION {Reorderings(p[i].db) : i \in 1..Len(p)}] :
                            \A i \in 1..Len(p) : t[i] \in Reorderings(p[i].db)}} :
            p \in Reorderings(DATABASES)}

\* The dictionary as a mapping from pairs to source sets.
AsMapping(d) == {<<d[i].key, d[i].names>> : i \in 1..Len(d)}

\* C30: the index from pairs to source sets that the fold builds is, as a
\* mapping, the same for every order of the tables and every order of the
\* rows of a table, and folding the tables, or one of them, once more
\* changes nothing.
C30_FoldOrderIndependent ==
    stage \in {"tuples", "wormbase", "ensembl", "serialized"} =>
        /\ all_pairs = FoldDatabases(<<>>, DATABASES)
        /\ \A dbs \in Reordered :
                AsMapping(FoldDatabases(<<>>, dbs)) = AsMapping(all_pairs)
        /\ AsMapping(FoldDatabases(all_pairs, DATABASES)) = AsMapping(all_pairs)
        /\ \A k \in 1..Len(DATABASES) :
                AsMapping(FoldRows(all_pairs, DATABASES[k].name, Selected(DATABASES[k].db)))
                    = AsMapping(all_pairs)

\* C30 witness: two tables that share a pair and hold another pair each
\* have been folded, and another fold order emits the records in another
\* order.
C30_Witness ==
    /\ stage = "tuples"
    /\ Len(all_pairs) >= 3
    /\ \E i \in 1..Len(all_pairs) : Cardinality(all_pairs[i].names) = 2
    /\ \E dbs \in Reordered : FoldDatabases(<<>>, dbs) # all_pairs

----------------------------------------------------------------------------
(* The human side of the per-source tables, and the legacy table *)

\* The rows of the human crosswalk under the human identifier of raw record
\* r: rows of the ENSP table for OrthoMCL, of the crosswalk tables for the
\* left-merge sources.
HumanHitRows(r) ==
    IF db_name = "OrthoMCL"
    THEN {k \in 1..Len(_get_ensembl_56_ensp_ensg_map) :
            _get_ensembl_56_ensp_ensg_map[k].idx = RawTable[r].HS_ENSP}
    ELSE {k \in 1..Len(HumanMap(db_name)) :
            HumanMap(db_name)[k][NativeColumns(db_name)[2]]
                = RawTable[r][NativeColumns(db_name)[2]]}

\* C21 as stated: no row of the table of Homologene, InParanoid,
\* OrthoInspector or OrthoMCL has a null HS_ENSG once the human side is
\* mapped, and a raw record without a row in the human crosswalk has no row
\* in it.
C21_NoNullHumanId ==
    LET mapped == IF db_name = "OrthoMCL" THEN {"worm", "human", "processed", "done"}
                  ELSE {"human", "processed", "done"}
    IN  (db_name \in LeftMergeSources \cup {"OrthoMCL"} /\ step \in mapped) =>
            \A i \in 1..Len(self_df) : ~IsNull(self_df[i].HS_ENSG)

\* C21 amended: in OrthoMCL, whose ENSP table is joined by an inner merge, a
\* raw record whose ENSP has no row in the table has no row in the
\* per-source table; in Homologene, InParanoid and OrthoInspector, whose
\* human crosswalk is joined by a left merge, such a record is kept with a
\* null HS_ENSG, and the returned table holds a row with a null HS_ENSG.
C21_NullHumanIdBySource ==
    /\ db_name = "OrthoMCL" =>
        /\ step \in {"worm", "human"} =>
            /\ \A r \in 1..Len(RawTable) :
                    HumanHitRows(r) = {} =>
                        ~\E i \in 1..Len(self_df) : self_df[i].idx = RawTable[r].idx
            /\ \A i \in 1..Len(self_df) :
                    \E k \in 1..Len(_get_ensembl_56_ensp_ensg_map) :
                        /\ _get_ensembl_56_ensp_ensg_map[k].idx = self_df[i].HS_ENSP
                        /\ KeyMatch(_get_ensembl_56_ensp_ensg_map[k].HS_ENSG, self_df[i].HS_ENSG)
        /\ step \in {"processed", "done"} =>
            \A i \in 1..Len(self_df) :
                \E r \in 1..Len(RawTable) :
                    /\ RawTable[r].CE_WB_OLD = self_df[i].CE_WB_OLD
                    /\ \E k \in HumanHitRows(r) :
                            KeyMatch(_get_ensembl_56_ensp_ensg_map[k].HS_ENSG,
                                     self_df[i].HS_ENSG)
    /\ db_name \in LeftMergeSources =>
        /\ step = "human" =>
            \A r \in 1..Len(RawTable) :
                HumanHitRows(r) = {} =>
                    /\ \E i \in 1..Len(self_df) : FromRaw(i, r)
                    /\ \A i \in 1..Len(self_df) : FromRaw(i, r) => self_df[i].HS_ENSG = NaN
        /\ (step \in {"processed", "done"}
                /\ \E r \in 1..Len(RawTable) : HumanHitRows(r) = {}) =>
            \E i \in 1..Len(self_df) : self_df[i].HS_ENSG = NaN

\* C21 witness: OrthoMCL's table has been built from a pair whose ENSP has a
\* row in the ENSP table and a pair whose ENSP has none, and holds the first
\* only.
C21_Witness ==
    /\ db_name = "OrthoMCL"
    /\ step = "done"
    /\ \E r \in 1..Len(RawTable) : HumanHitRows(r) = {}
    /\ \E r \in 1..Len(RawTable) : HumanHitRows(r) # {}
    /\ Len(self_df) = 1
    /\ self_df[1].HS_ENSG = "H1"

\* C24: constructing the legacy Ortholist source raises nothing and ends
\* with the deduplicated legacy table, to which no resolution was applied.
C24_LegacyConstructs ==
    db_name = "Ortholist" =>
        /\ exc = "none"
        /\ step # "raised"
        /\ step = "done" => self_df = _read_raw("Ortholist", data.orthologs)

----------------------------------------------------------------------------
(* The ortholog files over the runs of the program *)

\* C25: the table of raw pairs a run of Homologene or InParanoid reads is the
\* expansion of the raw group file of that run, in every run.
C25_RebuiltPerRun ==
    (source \in {"Homologene", "InParanoid"} /\ pc = "read") =>
        raw_df = read_orthologs(source, make_table(source, reader).rows)

\* C29: when get_homologene or get_orthoinspector has launched the
\* preprocessing script, the ortholog file is tested and read only once the
\* script has finished.
C29_ReadAfterPreprocess ==
    (Launches /\ pc \in {"present", "missing", "read", "raised"}) => script = "finished"

====
